---- MODULE Spec2Model ----
(***************************************************************************)
(* The post pipeline of gpt-think-blog: the list endpoint GET /api/posts   *)
(* in its two versions (src/src/app/api/posts/route.ts, batch size 3,      *)
(* 10 minute cache; src/src/app/page.tsx lines 329-577, snapshot first,    *)
(* batch size 5, 1 hour cache), the upstream note service they fetch from, *)
(* and the paginator they answer with.                                     *)
(*                                                                         *)
(* Strings are sequences of one-character strings, so that trim, substring *)
(* and concatenation are computed.  A timestamp string (createdAt,         *)
(* updatedAt) is represented by the epoch value new Date(s).getTime()      *)
(* gives for it; only valid timestamps are modelled.                       *)
(***************************************************************************)
EXTENDS Integers, Sequences, FiniteSets, TLC

\* ------------------------------------------------------------------ bounds

\* Longest post collection handed to the paginator in SpecPaginate.
MaxLen == 4
\* Largest limit query parameter in SpecPaginate.
MaxLimit == 3
\* Largest page query parameter probed in SpecPaginate.
MaxPage == 4
\* Number of times the clock advances in one behaviour of Spec.
MaxTicks == 2
\* The longest content is this much longer than the excerpt length.
MaxOver == 2
\* The largest collection an infinite-scroll component is mounted on.
MaxPosts == 11
\* How many posts are published while a component is mounted.
MaxPublished == 3
\* How many calls of fetchPosts an InfinitePostList makes.
MaxFetches == 4

\* ------------------------------------------------------- program constants

\* route.ts: const CACHE_DURATION = 10 * 60 * 1000
CACHE_DURATION_route == 600000
\* page.tsx: const CACHE_DURATION = 60 * 60 * 1000
CACHE_DURATION_page == 3600000
\* route.ts: const batchSize = 3
batchSize_route == 3
\* page.tsx: const batchSize = 5
batchSize_page == 5
\* setTimeout(resolve, 1000) between batches
BATCH_DELAY == 1000
\* substring(0, 200)
EXCERPT_LENGTH == 200

\* ---------------------------------------------------------------- values

\* JavaScript null where an object is expected (a record with no field of
\* any object of the program, so that it compares unequal to all of them).
Null == [null |-> TRUE]
\* JavaScript null where an array of objects is expected.
NullArray == <<Null>>
\* undefined where a string or an array of strings is expected: an absent
\* field of a note ("undefined" is no character and no tag).
Undefined == <<"undefined">>
\* A promise that has not settled.
Pending == [pending |-> TRUE]

Min(a, b) == IF a < b THEN a ELSE b
Max(a, b) == IF a > b THEN a ELSE b

\* String literals of the code.
UNTITLED == <<"U", "n", "t", "i", "t", "l", "e", "d">>
ELLIPSIS == <<".", ".", ".">>
NO_CONTENT ==
  <<"N", "o", " ", "c", "o", "n", "t", "e", "n", "t", " ",
    "a", "v", "a", "i", "l", "a", "b", "l", "e">>

\* ------------------------------------------------------------- paginator

\* Array.prototype.slice(start, end): negative indices count from the end,
\* both are clamped to the array, an empty range gives the empty array.
SliceFrom(len, k) == IF k < 0 THEN Max(len + k, 0) ELSE Min(k, len)

\* A slice that clamps its start to the last index instead of the length.
SliceClampLast(arr, start, end) ==
  LET from == SliceFrom(Len(arr), Min(start, Len(arr) - 1))
      to == SliceFrom(Len(arr), end)
  IN  IF from < to THEN SubSeq(arr, from + 1, to) ELSE <<>>

Slice(arr, start, end) ==
  LET from == SliceFrom(Len(arr), start)
      to == SliceFrom(Len(arr), end)
  IN  IF from < to THEN SubSeq(arr, from + 1, to) ELSE <<>>

\* A skip that takes the page number for zero-based.
SkipOffByOne(page, limit) == page * limit

\* const skip = (page - 1) * limit

Skip(page, limit) == (page - 1) * limit

\* The cache path with hasMore computed with <= for <.
CachedResponseLe(cache, page, limit) ==
  [status |-> 200,
   posts |-> Slice(cache, Skip(page, limit), Skip(page, limit) + limit),
   pagination |-> [page |-> page, limit |-> limit, total |-> Len(cache),
                   hasMore |-> Skip(page, limit) + limit <= Len(cache)]]

\* NextResponse.json({ posts, pagination }) of the cache path of route.ts.
CachedResponse(cache, page, limit) ==
  LET skip == Skip(page, limit)
      totalPosts == Len(cache)
      paginatedPosts == Slice(cache, skip, skip + limit)
      hasMore == skip + limit < totalPosts
  IN  [status |-> 200,
       posts |-> paginatedPosts,
       pagination |-> [page |-> page, limit |-> limit, total |-> totalPosts,
                       hasMore |-> hasMore]]

\* The response of the fresh-fetch path of route.ts.
FreshResponse(successfulPosts, page, limit) ==
  LET skip == Skip(page, limit)
      totalPosts == Len(successfulPosts)
      paginatedPosts == Slice(successfulPosts, skip, skip + limit)
      hasMore == skip + limit < totalPosts
  IN  [status |-> 200,
       posts |-> paginatedPosts,
       pagination |-> [page |-> page, limit |-> limit, total |-> totalPosts,
                       hasMore |-> hasMore]]

\* The response of the snapshot path of page.tsx.
StaticResponse(staticPosts, page, limit) ==
  LET skip == Skip(page, limit)
      totalPosts == Len(staticPosts)
      paginatedPosts == Slice(staticPosts, skip, skip + limit)
      hasMore == skip + limit < totalPosts
  IN  [status |-> 200,
       posts |-> paginatedPosts,
       pagination |-> [page |-> page, limit |-> limit, total |-> totalPosts,
                       hasMore |-> hasMore]]

\* The response of the memory-cache path of page.tsx.
MemoryCachedResponse(cachedPosts, page, limit) ==
  LET skip == Skip(page, limit)
      totalPosts == Len(cachedPosts)
      paginatedPosts == Slice(cachedPosts, skip, skip + limit)
      hasMore == skip + limit < totalPosts
  IN  [status |-> 200,
       posts |-> paginatedPosts,
       pagination |-> [page |-> page, limit |-> limit, total |-> totalPosts,
                       hasMore |-> hasMore]]

\* The response of the fresh-fetch path of page.tsx (debug block and
\* Cache-Control header included).
FreshResponsePage(successfulPosts, nerrors, page, limit) ==
  LET skip == Skip(page, limit)
      totalPosts == Len(successfulPosts)
      paginatedPosts == Slice(successfulPosts, skip, skip + limit)
      hasMore == skip + limit < totalPosts
  IN  [status |-> 200,
       posts |-> paginatedPosts,
       pagination |-> [page |-> page, limit |-> limit, total |-> totalPosts,
                       hasMore |-> hasMore],
       debug |-> [totalFetched |-> Len(successfulPosts), errors |-> nerrors,
                  cacheUsed |-> FALSE]]

\* ------------------------------------------------------------ raw notes

\* A JavaScript value used as a condition: undefined, null and "" are falsy.
Truthy(v) == v # Undefined /\ v # <<>>

\* String.prototype.trim(): leading and trailing white space removed.
RECURSIVE TrimStart(_)
TrimStart(s) ==
  IF s # <<>> /\ Head(s) = " " THEN TrimStart(Tail(s)) ELSE s

RECURSIVE TrimEnd(_)
TrimEnd(s) ==
  IF s # <<>> /\ s[Len(s)] = " " THEN TrimEnd(SubSeq(s, 1, Len(s) - 1)) ELSE s

Trim(s) == TrimEnd(TrimStart(s))

\* String.prototype.substring(0, n).
Substring0(s, n) == SubSeq(s, 1, Min(n, Len(s)))

\* content.replace(regex, ""): the characters of the class are removed
\* (hash, star, backtick, square brackets, round brackets).
\* The backtick is written "BQ": the TLA+ lexer takes no backtick in a string.
MarkdownChars == {"#", "*", "BQ", "[", "]", "(", ")"}

StripMarkdown(s) ==
  LET kept(ch) == ch \notin MarkdownChars
  IN  SelectSeq(s, kept)

\* The post route.ts builds from a note (no title filter).
RoutePost(noteId, note) ==
  [id |-> noteId,
   title |-> IF Truthy(note.title) THEN note.title ELSE UNTITLED,
   tags |-> IF note.tags # Undefined THEN note.tags ELSE <<>>,
   createdAt |-> note.createdAt,
   updatedAt |-> note.updatedAt,
   excerpt |-> IF Truthy(note.content)
               THEN Substring0(note.content, EXCERPT_LENGTH) \o ELLIPSIS
               ELSE NO_CONTENT]

\* The post page.tsx builds from a note, or null for a note whose title is
\* absent, empty or blank.
PagePost(noteId, data) ==
  IF ~Truthy(data.title) \/ Trim(data.title) = <<>> THEN Null
  ELSE [id |-> noteId,
        title |-> data.title,
        tags |-> IF data.tags # Undefined THEN data.tags ELSE <<>>,
        createdAt |-> data.createdAt,
        updatedAt |-> data.updatedAt,
        excerpt |-> IF Truthy(data.content)
                    THEN Substring0(StripMarkdown(data.content), EXCERPT_LENGTH)
                         \o ELLIPSIS
                    ELSE <<>>,
        content |-> IF Truthy(data.content) THEN data.content ELSE <<>>]

\* The insertion of a sort whose comparator is a - b: oldest first.
RECURSIVE InsertOldestFirst(_, _)
InsertOldestFirst(sorted, post) ==
  IF sorted = <<>> THEN <<post>>
  ELSE IF post.updatedAt - Head(sorted).updatedAt < 0
       THEN <<post>> \o sorted
       ELSE <<Head(sorted)>> \o InsertOldestFirst(Tail(sorted), post)

\* Array.prototype.sort((a, b) => Date(b.updatedAt) - Date(a.updatedAt)):
\* most recent first; the sort is stable, so posts with equal updatedAt keep
\* their order.
RECURSIVE InsertByUpdatedAt(_, _)
InsertByUpdatedAt(sorted, post) ==
  IF sorted = <<>> THEN <<post>>
  ELSE IF Head(sorted).updatedAt - post.updatedAt < 0
       THEN <<post>> \o sorted
       ELSE <<Head(sorted)>> \o InsertByUpdatedAt(Tail(sorted), post)

RECURSIVE SortByUpdatedAt(_)
SortByUpdatedAt(posts) ==
  IF posts = <<>> THEN <<>>
  ELSE InsertByUpdatedAt(SortByUpdatedAt(SubSeq(posts, 1, Len(posts) - 1)),
                         posts[Len(posts)])

\* ------------------------------------------------------------------ state

VARIABLES
  variant,         \* which version of the list endpoint is deployed
  noteIds,         \* noteIds.noteIds of src/data/noteIds.json
  apiKey,          \* whether process.env.HACKMD_API_KEY is set
  staticData,      \* src/data/posts.json as tryReadStaticData reads it
  upstream,        \* the note service: what GET /notes/{id} gives for each id
  clock,           \* Date.now()
  ticks,           \* how often the clock has advanced
  postsCache,      \* route.ts: let postsCache
  cacheTimestamp,  \* route.ts: let cacheTimestamp
  memoryCache,     \* page.tsx: let memoryCache
  reqs,            \* the invocations of GET: their locals and position
  outbound,        \* the fetches in flight: <<invocation, index in noteIds>>
  pgPath,          \* SpecPaginate: the response path under test
  pgColl,          \* SpecPaginate: the collection that is paged
  pgLimit,         \* SpecPaginate: the limit parameter of the client
  pgPage,          \* SpecPaginate: the next page the client asks for
  pgAcc,           \* SpecPaginate: the slices received so far, concatenated
  pgResp,          \* SpecPaginate: the last response
  nzNote,          \* SpecNormalize: the note that is made a post
  nzPipeline,      \* SpecNormalize: the pipeline that made the post
  nzPost,          \* SpecNormalize: the post, or null
  itVersion,       \* SpecItem: which version of the single-item endpoint
  itId,            \* SpecItem: the id of the request
  itOutcome,       \* SpecItem: what GET /notes/{id} gives for that id
  itResp,          \* SpecItem: the response
  component,       \* SpecUi: which infinite-scroll component is mounted
  srvPosts,        \* SpecUi: the collection /api/posts pages for the component
  srvPublished,    \* SpecUi: how many posts were published since the mount
  spPosts,         \* InfiniteScrollPosts: posts
  spPagination,    \* InfiniteScrollPosts: pagination
  spLoading,       \* InfiniteScrollPosts: loading
  spError,         \* InfiniteScrollPosts: error
  spFetch,         \* InfiniteScrollPosts: the call of loadMorePosts in flight
  spLast,          \* InfiniteScrollPosts: the call that settled last
  plPosts,         \* InfinitePostList: posts
  plLoading,       \* InfinitePostList: loading
  plLoadingMore,   \* InfinitePostList: loadingMore
  plHasMore,       \* InfinitePostList: hasMore
  plPage,          \* InfinitePostList: page
  plError,         \* InfinitePostList: error
  plFetches,       \* InfinitePostList: the calls of fetchPosts in flight
  plIssued,        \* InfinitePostList: how many calls of fetchPosts were made
  plMounted,       \* InfinitePostList: whether the mount effect has run
  plLast           \* InfinitePostList: the call that settled last

configVars == <<variant, noteIds, apiKey, staticData>>
cacheVars == <<postsCache, cacheTimestamp, memoryCache>>
serverVars == <<configVars, upstream, clock, ticks, cacheVars, reqs, outbound>>
pgVars == <<pgPath, pgColl, pgLimit, pgPage, pgAcc, pgResp>>
nzVars == <<nzNote, nzPipeline, nzPost>>
itVars == <<itVersion, itId, itOutcome, itResp>>
srvVars == <<component, srvPosts, srvPublished>>
spVars == <<spPosts, spPagination, spLoading, spError, spFetch, spLast>>
plVars == <<plPosts, plLoading, plLoadingMore, plHasMore, plPage, plError,
            plFetches, plIssued, plMounted, plLast>>
uiVars == <<srvVars, spVars, plVars>>
vars == <<serverVars, pgVars, nzVars, itVars, uiVars>>

\* The invocations of GET that can be in progress at the same time.
Requests == {1, 2}

\* The query parameters of the requests of Spec.
Queries == {<<1, 2>>}

\* Date.now() when the process starts.
StartTime == 1000000000

\* --------------------------------------------------------- upstream notes

AllIds == <<"A", "B", "C", "D", "E", "F">>
IdSet == {AllIds[k] : k \in 1..Len(AllIds)}

\* The notes of the service: titles present, absent, empty and blank, equal
\* and distinct updatedAt, content present, absent, empty and with markdown.
BaseNote(id) ==
  CASE id = "A" -> [title |-> <<"a">>, tags |-> <<"t">>, createdAt |-> 1,
                    updatedAt |-> 2, content |-> <<"#", "a">>]
    [] id = "B" -> [title |-> <<>>, tags |-> Undefined, createdAt |-> 1,
                    updatedAt |-> 3, content |-> Undefined]
    [] id = "C" -> [title |-> Undefined, tags |-> <<>>, createdAt |-> 1,
                    updatedAt |-> 2, content |-> <<"a", "b">>]
    [] id = "D" -> [title |-> <<" ", " ">>, tags |-> <<"t">>, createdAt |-> 2,
                    updatedAt |-> 3, content |-> <<>>]
    [] id = "E" -> [title |-> <<"b">>, tags |-> Undefined, createdAt |-> 2,
                    updatedAt |-> 2, content |-> <<"a", "*">>]
    [] id = "F" -> [title |-> <<" ", "c">>, tags |-> <<"t", "u">>, createdAt |-> 4,
                    updatedAt |-> 5, content |-> <<"b">>]

\* What a fetch of an id ends in: a note, a response that is not ok, or an
\* exception (time-out abort, transport error, malformed body).
HTTP_ERROR == [error |-> "response not ok"]
THROWS == [error |-> "exception"]

World(httpErrors, throwing) ==
  [id \in IdSet |-> IF id \in httpErrors THEN HTTP_ERROR
                    ELSE IF id \in throwing THEN THROWS
                    ELSE BaseNote(id)]

\* The posts of a snapshot file.
StaticPosts ==
  <<[id |-> "F", title |-> <<" ", "c">>, tags |-> <<>>, createdAt |-> 4,
     updatedAt |-> 5, excerpt |-> <<"b">> \o ELLIPSIS],
    [id |-> "A", title |-> <<"a">>, tags |-> <<>>, createdAt |-> 1,
     updatedAt |-> 2, excerpt |-> <<"#", "a">> \o ELLIPSIS],
    [id |-> "C", title |-> UNTITLED, tags |-> <<>>, createdAt |-> 1,
     updatedAt |-> 1, excerpt |-> <<"a", "b">> \o ELLIPSIS]>>


\* An invocation that has not started.  issued and found are records of what
\* happened, which no code reads: the ids fetched so far, in order, and how
\* the invocation found the cache ("cold": none, "stale": expired, "warm").
IdleReq ==
  [pc |-> "idle", page |-> 0, limit |-> 0, now |-> 0, i |-> 0, batch |-> <<>>,
   promises |-> <<>>, allResults |-> <<>>, allPosts |-> <<>>, nerrors |-> 0,
   wake |-> 0, issued |-> <<>>, found |-> "", response |-> Null]

\* ------------------------------------------------ the list endpoint, route.ts

\* GET returns its response in the turn that computes it, so no other step
\* runs while an invocation holds a response that is not yet delivered.
Returned == \A r \in Requests : reqs[r].pc # "done"

\* New invocations take the lowest free slot.
FreeSlot(r) ==
  /\ reqs[r].pc = "idle"
  /\ \A q \in Requests : q < r => reqs[q].pc # "idle"

\* Promise.allSettled / Promise.all: every promise of the batch has settled.
AllSettled(promises) == \A k \in 1..Len(promises) : promises[k] # Pending

\* A callback without the response.ok check: the body of an error response
\* (no title, no content) is made a post.
RouteFetchNoOkCheck(noteId) ==
  IF upstream[noteId] = THROWS THEN Null
  ELSE IF upstream[noteId] = HTTP_ERROR
  THEN RoutePost(noteId, [title |-> Undefined, tags |-> Undefined, createdAt |-> 0,
                          updatedAt |-> 0, content |-> Undefined])
  ELSE RoutePost(noteId, upstream[noteId])

\* What the callback of batch.map returns for a note id in route.ts: null for
\* a response that is not ok and for an exception, the post otherwise.
RouteFetch(noteId) ==
  IF upstream[noteId] = HTTP_ERROR THEN Null
  ELSE IF upstream[noteId] = THROWS THEN Null
  ELSE RoutePost(noteId, upstream[noteId])

\* allResults.filter(fulfilled and not null).map(value).filter(not null).sort(...)
RouteSuccessfulPosts(allResults) ==
  LET fulfilled(result) == result.status = "fulfilled" /\ result.value # Null
      notNull(post) == post # Null
      values == [k \in 1..Len(SelectSeq(allResults, fulfilled)) |->
                   SelectSeq(allResults, fulfilled)[k].value]
  IN  SortByUpdatedAt(SelectSeq(values, notNull))

\* The cache write and the response that end a refresh of route.ts.
RouteFinish(r, st, ob) ==
  LET successfulPosts == RouteSuccessfulPosts(st.allResults)
  IN  /\ postsCache' = successfulPosts
      /\ cacheTimestamp' = st.now
      /\ reqs' = [reqs EXCEPT ![r] =
                    [st EXCEPT !.pc = "done",
                               !.response = FreshResponse(successfulPosts, st.page, st.limit)]]
      /\ outbound' = ob
      /\ UNCHANGED memoryCache

\* A pass of the loop that fetches all the remaining ids at once.
RouteStartBatchAll(r, st, i, ob) ==
  LET batch == Slice(noteIds, i, Len(noteIds))
  IN  /\ reqs' = [reqs EXCEPT ![r] =
                    [st EXCEPT !.pc = "fetching", !.i = i, !.batch = batch,
                               !.promises = [k \in 1..Len(batch) |-> Pending],
                               !.issued = st.issued \o batch]]
      /\ outbound' = ob \cup {<<r, i + k>> : k \in 1..Len(batch)}
      /\ UNCHANGED cacheVars

\* A pass of the loop that empties the cache when the refresh starts.
RouteStartBatchClearing(r, st, i, ob) ==
  LET batch == Slice(noteIds, i, i + batchSize_route)
  IN  /\ reqs' = [reqs EXCEPT ![r] =
                    [st EXCEPT !.pc = "fetching", !.i = i, !.batch = batch,
                               !.promises = [k \in 1..Len(batch) |-> Pending],
                               !.issued = st.issued \o batch]]
      /\ outbound' = ob \cup {<<r, i + k>> : k \in 1..Len(batch)}
      /\ postsCache' = <<>>
      /\ UNCHANGED <<cacheTimestamp, memoryCache>>

\* One pass of the for loop up to its await: the fetches of the batch at i
\* are issued together.
\* A batch that takes one identifier more than the batch size, so that
\* successive batches overlap by one identifier.
RouteStartBatchOverlap(r, st, i, ob) ==
  LET batch == Slice(noteIds, i, i + batchSize_route + 1)
  IN  /\ reqs' = [reqs EXCEPT ![r] =
                    [st EXCEPT !.pc = "fetching", !.i = i, !.batch = batch,
                               !.promises = [k \in 1..Len(batch) |-> Pending],
                               !.issued = st.issued \o batch]]
      /\ outbound' = ob \cup {<<r, i + k>> : k \in 1..Len(batch)}
      /\ UNCHANGED cacheVars

RouteStartBatch(r, st, i, ob) ==
  LET batch == Slice(noteIds, i, i + batchSize_route)
  IN  /\ reqs' = [reqs EXCEPT ![r] =
                    [st EXCEPT !.pc = "fetching", !.i = i, !.batch = batch,
                               !.promises = [k \in 1..Len(batch) |-> Pending],
                               !.issued = st.issued \o batch]]
      /\ outbound' = ob \cup {<<r, i + k>> : k \in 1..Len(batch)}
      /\ UNCHANGED cacheVars

\* The head of the for loop: i < noteIds.noteIds.length.
RouteLoop(r, st, i, ob) ==
  IF i < Len(noteIds) THEN RouteStartBatch(r, st, i, ob) ELSE RouteFinish(r, st, ob)

\* A cache check with the comparison turned round.
RouteCacheValidInverted(now) ==
  postsCache # NullArray /\ now - cacheTimestamp > CACHE_DURATION_route

\* if (postsCache && now - cacheTimestamp < CACHE_DURATION)
\* The expiry check with <= in place of <.
RouteCacheValidLe(now) ==
  postsCache # NullArray /\ now - cacheTimestamp <= CACHE_DURATION_route

\* An expiry check that takes an empty collection for no collection.
RouteCacheValidNonEmpty(now) ==
  /\ postsCache # NullArray
  /\ Len(postsCache) > 0
  /\ now - cacheTimestamp < CACHE_DURATION_route

RouteCacheValid(now) ==
  postsCache # NullArray /\ now - cacheTimestamp < CACHE_DURATION_route

\* A GET that starts no refresh while another invocation is in one: it
\* answers 503 instead.
RouteGETSingleFlight(r, page, limit) ==
  /\ variant = "route"
  /\ Returned
  /\ FreeSlot(r)
  /\ LET now == clock
         st == [IdleReq EXCEPT !.page = page, !.limit = limit, !.now = now]
     IN  IF ~apiKey
         THEN /\ reqs' = [reqs EXCEPT ![r] =
                            [st EXCEPT !.pc = "done",
                                       !.response = [status |-> 500,
                                                     error |-> "API key not configured"]]]
              /\ UNCHANGED <<cacheVars, outbound>>
         ELSE IF RouteCacheValid(now)
         THEN /\ reqs' = [reqs EXCEPT ![r] =
                            [st EXCEPT !.pc = "done", !.found = "warm",
                                       !.response = CachedResponse(postsCache, page, limit)]]
              /\ UNCHANGED <<cacheVars, outbound>>
         ELSE IF \E q \in Requests : reqs[q].pc \in {"fetching", "delay"}
         THEN /\ reqs' = [reqs EXCEPT ![r] =
                            [st EXCEPT !.pc = "done",
                                       !.response = [status |-> 503,
                                                     error |-> "refresh in progress"]]]
              /\ UNCHANGED <<cacheVars, outbound>>
         ELSE RouteLoop(r, [st EXCEPT !.found = IF postsCache = NullArray
                                                THEN "cold" ELSE "stale"],
                        0, outbound)
  /\ UNCHANGED <<configVars, upstream, clock, ticks, pgVars, nzVars, itVars, uiVars>>

\* A GET without the credential check.
RouteGETNoKeyCheck(r, page, limit) ==
  /\ variant = "route"
  /\ Returned
  /\ FreeSlot(r)
  /\ LET now == clock
         st == [IdleReq EXCEPT !.page = page, !.limit = limit, !.now = now]
     IN  IF RouteCacheValid(now)
         THEN /\ reqs' = [reqs EXCEPT ![r] =
                            [st EXCEPT !.pc = "done", !.found = "warm",
                                       !.response = CachedResponse(postsCache, page, limit)]]
              /\ UNCHANGED <<cacheVars, outbound>>
         ELSE RouteLoop(r, [st EXCEPT !.found = IF postsCache = NullArray
                                                THEN "cold" ELSE "stale"],
                        0, outbound)
  /\ UNCHANGED <<configVars, upstream, clock, ticks, pgVars, nzVars, itVars, uiVars>>

\* GET of route.ts up to its first await: the credential check, the cache
\* check and, on a miss, the first batch.
RouteGET(r, page, limit) ==
  /\ variant = "route"
  /\ Returned
  /\ FreeSlot(r)
  /\ LET now == clock
         st == [IdleReq EXCEPT !.page = page, !.limit = limit, !.now = now]
     IN  IF ~apiKey
         THEN /\ reqs' = [reqs EXCEPT ![r] =
                            [st EXCEPT !.pc = "done",
                                       !.response = [status |-> 500,
                                                     error |-> "API key not configured"]]]
              /\ UNCHANGED <<cacheVars, outbound>>
         ELSE IF RouteCacheValid(now)
         THEN /\ reqs' = [reqs EXCEPT ![r] =
                            [st EXCEPT !.pc = "done", !.found = "warm",
                                       !.response = CachedResponse(postsCache, page, limit)]]
              /\ UNCHANGED <<cacheVars, outbound>>
         ELSE RouteLoop(r, [st EXCEPT !.found = IF postsCache = NullArray
                                                THEN "cold" ELSE "stale"],
                        0, outbound)
  /\ UNCHANGED <<configVars, upstream, clock, ticks, pgVars, nzVars, itVars, uiVars>>

\* A settling step that puts the result in the first free place of the
\* batch's results: the results are in the order of completion.
RouteSettleCompletionOrder(r, idx) ==
  /\ variant = "route"
  /\ Returned
  /\ <<r, idx>> \in outbound
  /\ LET st == reqs[r]
         free == {j \in 1..Len(st.promises) : st.promises[j] = Pending}
         k == IF free = {} THEN 0 ELSE CHOOSE j \in free : \A h \in free : j <= h
         ob == outbound \ {<<r, idx>>}
         promises == IF k \in 1..Len(st.promises)
                     THEN [st.promises EXCEPT ![k] =
                             [status |-> "fulfilled", value |-> RouteFetch(noteIds[idx])]]
                     ELSE st.promises
         st2 == [st EXCEPT !.promises = promises]
         st3 == [st2 EXCEPT !.allResults = st.allResults \o promises,
                            !.promises = <<>>, !.batch = <<>>]
     IN  IF st.pc = "fetching" /\ AllSettled(promises)
         THEN IF st.i + batchSize_route < Len(noteIds)
              THEN /\ reqs' = [reqs EXCEPT ![r] =
                                 [st3 EXCEPT !.pc = "delay", !.wake = clock + BATCH_DELAY]]
                   /\ outbound' = ob
                   /\ UNCHANGED cacheVars
              ELSE RouteLoop(r, st3, st.i + batchSize_route, ob)
         ELSE /\ reqs' = [reqs EXCEPT ![r] = st2]
              /\ outbound' = ob
              /\ UNCHANGED cacheVars
  /\ UNCHANGED <<configVars, upstream, clock, ticks, pgVars, nzVars, itVars, uiVars>>

\* A settling step whose delay condition is i + batchSize <= length.
RouteSettleDelayLe(r, idx) ==
  /\ variant = "route"
  /\ Returned
  /\ <<r, idx>> \in outbound
  /\ LET st == reqs[r]
         k == idx - st.i
         ob == outbound \ {<<r, idx>>}
         promises == IF k \in 1..Len(st.promises)
                     THEN [st.promises EXCEPT ![k] =
                             [status |-> "fulfilled", value |-> RouteFetch(noteIds[idx])]]
                     ELSE st.promises
         st2 == [st EXCEPT !.promises = promises]
         st3 == [st2 EXCEPT !.allResults = st.allResults \o promises,
                            !.promises = <<>>, !.batch = <<>>]
     IN  IF st.pc = "fetching" /\ AllSettled(promises)
         THEN IF st.i + batchSize_route <= Len(noteIds)
              THEN /\ reqs' = [reqs EXCEPT ![r] =
                                 [st3 EXCEPT !.pc = "delay", !.wake = clock + BATCH_DELAY]]
                   /\ outbound' = ob
                   /\ UNCHANGED cacheVars
              ELSE RouteLoop(r, st3, st.i + batchSize_route, ob)
         ELSE /\ reqs' = [reqs EXCEPT ![r] = st2]
              /\ outbound' = ob
              /\ UNCHANGED cacheVars
  /\ UNCHANGED <<configVars, upstream, clock, ticks, pgVars, nzVars, itVars, uiVars>>

\* A fetch of the current batch settles and its callback returns.  When it is
\* the last of the batch, Promise.allSettled resolves and GET goes on in the
\* same turn: the results are pushed, then the delay starts or, after the last
\* batch, the loop ends, the cache is written and the response is sent.
RouteSettle(r, idx) ==
  /\ variant = "route"
  /\ Returned
  /\ <<r, idx>> \in outbound
  /\ LET st == reqs[r]
         k == idx - st.i
         ob == outbound \ {<<r, idx>>}
         promises == IF k \in 1..Len(st.promises)
                     THEN [st.promises EXCEPT ![k] =
                             [status |-> "fulfilled", value |-> RouteFetch(noteIds[idx])]]
                     ELSE st.promises
         st2 == [st EXCEPT !.promises = promises]
         st3 == [st2 EXCEPT !.allResults = st.allResults \o promises,
                            !.promises = <<>>, !.batch = <<>>]
     IN  IF st.pc = "fetching" /\ AllSettled(promises)
         THEN IF st.i + batchSize_route < Len(noteIds)
              THEN /\ reqs' = [reqs EXCEPT ![r] =
                                 [st3 EXCEPT !.pc = "delay", !.wake = clock + BATCH_DELAY]]
                   /\ outbound' = ob
                   /\ UNCHANGED cacheVars
              ELSE RouteLoop(r, st3, st.i + batchSize_route, ob)
         ELSE /\ reqs' = [reqs EXCEPT ![r] = st2]
              /\ outbound' = ob
              /\ UNCHANGED cacheVars
  /\ UNCHANGED <<configVars, upstream, clock, ticks, pgVars, nzVars, itVars, uiVars>>

\* A delay whose promise is never resolved: the timer fires and nothing
\* goes on.
RouteDelayNeverResolves(r) ==
  /\ variant = "route"
  /\ Returned
  /\ reqs[r].pc = "delay"
  /\ clock >= reqs[r].wake
  /\ UNCHANGED vars

\* The timer of the delay between batches fires: i += batchSize and the next
\* pass of the loop.
RouteDelayDone(r) ==
  /\ variant = "route"
  /\ Returned
  /\ reqs[r].pc = "delay"
  /\ clock >= reqs[r].wake
  /\ RouteLoop(r, reqs[r], reqs[r].i + batchSize_route, outbound)
  /\ UNCHANGED <<configVars, upstream, clock, ticks, pgVars, nzVars, itVars, uiVars>>

\* ------------------------------------------------ the list endpoint, page.tsx

\* Whether the callback of batch.map ends in its catch block (a response that
\* is not ok is thrown as an Error there).
PageFetchFails(noteId) == upstream[noteId] = HTTP_ERROR \/ upstream[noteId] = THROWS

\* What the callback of batch.map returns for a note id in page.tsx.
PageFetch(noteId) ==
  IF PageFetchFails(noteId) THEN Null ELSE PagePost(noteId, upstream[noteId])

\* batchResults.filter(post => post !== null)
PageValidPosts(batchResults) ==
  LET notNull(post) == post # Null
  IN  SelectSeq(batchResults, notNull)

\* The sort, the cache write and the response that end a refresh of page.tsx.
PageFinish(r, st, ob) ==
  LET allPosts == SortByUpdatedAt(st.allPosts)
  IN  /\ memoryCache' = [posts |-> allPosts, lastUpdated |-> st.now]
      /\ reqs' = [reqs EXCEPT ![r] =
                    [st EXCEPT !.pc = "done", !.allPosts = allPosts,
                               !.response = FreshResponsePage(allPosts, st.nerrors,
                                                              st.page, st.limit)]]
      /\ outbound' = ob
      /\ UNCHANGED <<postsCache, cacheTimestamp>>

PageStartBatch(r, st, i, ob) ==
  LET batch == Slice(noteIds, i, i + batchSize_page)
  IN  /\ reqs' = [reqs EXCEPT ![r] =
                    [st EXCEPT !.pc = "fetching", !.i = i, !.batch = batch,
                               !.promises = [k \in 1..Len(batch) |-> Pending],
                               !.issued = st.issued \o batch]]
      /\ outbound' = ob \cup {<<r, i + k>> : k \in 1..Len(batch)}
      /\ UNCHANGED cacheVars

PageLoop(r, st, i, ob) ==
  IF i < Len(noteIds) THEN PageStartBatch(r, st, i, ob) ELSE PageFinish(r, st, ob)

\* if (memoryCache && now - memoryCache.lastUpdated < CACHE_DURATION)
PageCacheValid(now) ==
  memoryCache # Null /\ now - memoryCache.lastUpdated < CACHE_DURATION_page

\* A GET that does not look at the snapshot file.
PageGETNoSnapshot(r, page, limit) ==
  /\ variant = "page"
  /\ Returned
  /\ FreeSlot(r)
  /\ LET now == clock
         st == [IdleReq EXCEPT !.page = page, !.limit = limit]
     IN  IF ~apiKey
         THEN /\ reqs' = [reqs EXCEPT ![r] =
                            [st EXCEPT !.pc = "done",
                                       !.response = [status |-> 500,
                                                     error |-> "API key not configured"]]]
              /\ UNCHANGED <<cacheVars, outbound>>
         ELSE IF PageCacheValid(now)
         THEN /\ reqs' = [reqs EXCEPT ![r] =
                            [st EXCEPT !.pc = "done", !.now = now, !.found = "warm",
                                       !.response = MemoryCachedResponse(memoryCache.posts,
                                                                         page, limit)]]
              /\ UNCHANGED <<cacheVars, outbound>>
         ELSE PageLoop(r, [st EXCEPT !.now = now,
                                     !.found = IF memoryCache = Null
                                               THEN "cold" ELSE "stale"],
                       0, outbound)
  /\ UNCHANGED <<configVars, upstream, clock, ticks, pgVars, nzVars, itVars, uiVars>>

\* GET of page.tsx up to its first await: the snapshot, the credential check,
\* the cache check and, on a miss, the first batch.  A snapshot file without
\* a posts array makes staticData.posts.length throw, which the catch block
\* answers with 500.
PageGET(r, page, limit) ==
  /\ variant = "page"
  /\ Returned
  /\ FreeSlot(r)
  /\ LET now == clock
         st == [IdleReq EXCEPT !.page = page, !.limit = limit]
         respond(response) ==
           /\ reqs' = [reqs EXCEPT ![r] = [st EXCEPT !.pc = "done", !.response = response]]
           /\ UNCHANGED <<cacheVars, outbound>>
     IN  IF staticData # Null /\ "posts" \notin DOMAIN staticData
         THEN respond([status |-> 500, error |-> "Failed to fetch posts"])
         ELSE IF staticData # Null /\ Len(staticData.posts) > 0
         THEN respond(StaticResponse(staticData.posts, page, limit))
         ELSE IF ~apiKey
         THEN respond([status |-> 500, error |-> "API key not configured"])
         ELSE IF PageCacheValid(now)
         THEN /\ reqs' = [reqs EXCEPT ![r] =
                            [st EXCEPT !.pc = "done", !.now = now, !.found = "warm",
                                       !.response = MemoryCachedResponse(memoryCache.posts,
                                                                         page, limit)]]
              /\ UNCHANGED <<cacheVars, outbound>>
         ELSE PageLoop(r, [st EXCEPT !.now = now,
                                     !.found = IF memoryCache = Null
                                               THEN "cold" ELSE "stale"],
                       0, outbound)
  /\ UNCHANGED <<configVars, upstream, clock, ticks, pgVars, nzVars, itVars, uiVars>>

\* A fetch of the current batch settles and its callback returns.  When it is
\* the last of the batch, Promise.all resolves and GET goes on in the same
\* turn: the posts that are not null are pushed, then the delay starts or,
\* after the last batch, the posts are sorted, the cache is written and the
\* response is sent.
PageSettle(r, idx) ==
  /\ variant = "page"
  /\ Returned
  /\ <<r, idx>> \in outbound
  /\ LET st == reqs[r]
         k == idx - st.i
         ob == outbound \ {<<r, idx>>}
         promises == IF k \in 1..Len(st.promises)
                     THEN [st.promises EXCEPT ![k] = PageFetch(noteIds[idx])]
                     ELSE st.promises
         st2 == [st EXCEPT !.promises = promises,
                           !.nerrors = IF PageFetchFails(noteIds[idx])
                                       THEN st.nerrors + 1 ELSE st.nerrors]
         st3 == [st2 EXCEPT !.allPosts = st.allPosts \o PageValidPosts(promises),
                            !.promises = <<>>, !.batch = <<>>]
     IN  IF st.pc = "fetching" /\ AllSettled(promises)
         THEN IF st.i + batchSize_page < Len(noteIds)
              THEN /\ reqs' = [reqs EXCEPT ![r] =
                                 [st3 EXCEPT !.pc = "delay", !.wake = clock + BATCH_DELAY]]
                   /\ outbound' = ob
                   /\ UNCHANGED cacheVars
              ELSE PageLoop(r, st3, st.i + batchSize_page, ob)
         ELSE /\ reqs' = [reqs EXCEPT ![r] = st2]
              /\ outbound' = ob
              /\ UNCHANGED cacheVars
  /\ UNCHANGED <<configVars, upstream, clock, ticks, pgVars, nzVars, itVars, uiVars>>

PageDelayDone(r) ==
  /\ variant = "page"
  /\ Returned
  /\ reqs[r].pc = "delay"
  /\ clock >= reqs[r].wake
  /\ PageLoop(r, reqs[r], reqs[r].i + batchSize_page, outbound)
  /\ UNCHANGED <<configVars, upstream, clock, ticks, pgVars, nzVars, itVars, uiVars>>

\* ------------------------------------------- the snapshot job, update-posts.js

\* update-posts.js: const batchSize = 3
batchSize_script == 3

\* The post the job builds from a note (no title filter).
ScriptPost(noteId, note) ==
  [id |-> noteId,
   title |-> IF Truthy(note.title) THEN note.title ELSE UNTITLED,
   tags |-> IF note.tags # Undefined THEN note.tags ELSE <<>>,
   createdAt |-> note.createdAt,
   updatedAt |-> note.updatedAt,
   excerpt |-> IF Truthy(note.content)
               THEN Substring0(note.content, EXCERPT_LENGTH) \o ELLIPSIS
               ELSE NO_CONTENT]

\* What the callback of batch.map returns for a note id in the job.
ScriptFetch(noteId) ==
  IF upstream[noteId] = HTTP_ERROR THEN Null
  ELSE IF upstream[noteId] = THROWS THEN Null
  ELSE ScriptPost(noteId, upstream[noteId])

\* allResults.filter(fulfilled and not null).map(value).filter(not null).sort(...)
ScriptSuccessfulPosts(allResults) ==
  LET fulfilled(result) == result.status = "fulfilled" /\ result.value # Null
      notNull(post) == post # Null
      values == [k \in 1..Len(SelectSeq(allResults, fulfilled)) |->
                   SelectSeq(allResults, fulfilled)[k].value]
  IN  SortByUpdatedAt(SelectSeq(values, notNull))

\* fetchPosts returns and main writes src/data/posts.json.
ScriptFinish(r, st, ob) ==
  LET posts == ScriptSuccessfulPosts(st.allResults)
  IN  /\ staticData' = [posts |-> posts, timestamp |-> clock, total |-> Len(posts),
                        lastUpdated |-> clock]
      /\ reqs' = [reqs EXCEPT ![r] = [st EXCEPT !.pc = "done", !.response = [exit |-> 0]]]
      /\ outbound' = ob

ScriptStartBatch(r, st, i, ob) ==
  LET batch == Slice(noteIds, i, i + batchSize_script)
  IN  /\ reqs' = [reqs EXCEPT ![r] =
                    [st EXCEPT !.pc = "fetching", !.i = i, !.batch = batch,
                               !.promises = [k \in 1..Len(batch) |-> Pending],
                               !.issued = st.issued \o batch]]
      /\ outbound' = ob \cup {<<r, i + k>> : k \in 1..Len(batch)}
      /\ UNCHANGED staticData

ScriptLoop(r, st, i, ob) ==
  IF i < Len(noteIds) THEN ScriptStartBatch(r, st, i, ob) ELSE ScriptFinish(r, st, ob)

\* A run of the job up to its first await: without the credential the process
\* exits with 1, otherwise main calls fetchPosts, which issues the first batch.
ScriptMain(r) ==
  /\ variant = "script"
  /\ Returned
  /\ FreeSlot(r)
  /\ r = 1
  /\ IF ~apiKey
     THEN /\ reqs' = [reqs EXCEPT ![r] =
                        [IdleReq EXCEPT !.pc = "done", !.response = [exit |-> 1]]]
          /\ UNCHANGED <<staticData, outbound>>
     ELSE ScriptLoop(r, IdleReq, 0, outbound)
  /\ UNCHANGED <<variant, noteIds, apiKey, upstream, clock, ticks, cacheVars, pgVars, nzVars, itVars, uiVars>>

ScriptSettle(r, idx) ==
  /\ variant = "script"
  /\ Returned
  /\ <<r, idx>> \in outbound
  /\ LET st == reqs[r]
         k == idx - st.i
         ob == outbound \ {<<r, idx>>}
         promises == IF k \in 1..Len(st.promises)
                     THEN [st.promises EXCEPT ![k] =
                             [status |-> "fulfilled", value |-> ScriptFetch(noteIds[idx])]]
                     ELSE st.promises
         st2 == [st EXCEPT !.promises = promises]
         st3 == [st2 EXCEPT !.allResults = st.allResults \o promises,
                            !.promises = <<>>, !.batch = <<>>]
     IN  IF st.pc = "fetching" /\ AllSettled(promises)
         THEN IF st.i + batchSize_script < Len(noteIds)
              THEN /\ reqs' = [reqs EXCEPT ![r] =
                                 [st3 EXCEPT !.pc = "delay", !.wake = clock + BATCH_DELAY]]
                   /\ outbound' = ob
                   /\ UNCHANGED staticData
              ELSE ScriptLoop(r, st3, st.i + batchSize_script, ob)
         ELSE /\ reqs' = [reqs EXCEPT ![r] = st2]
              /\ outbound' = ob
              /\ UNCHANGED staticData
  /\ UNCHANGED <<variant, noteIds, apiKey, upstream, clock, ticks, cacheVars, pgVars, nzVars, itVars, uiVars>>

ScriptDelayDone(r) ==
  /\ variant = "script"
  /\ Returned
  /\ reqs[r].pc = "delay"
  /\ clock >= reqs[r].wake
  /\ ScriptLoop(r, reqs[r], reqs[r].i + batchSize_script, outbound)
  /\ UNCHANGED <<variant, noteIds, apiKey, upstream, clock, ticks, cacheVars, pgVars, nzVars, itVars, uiVars>>

\* ------------------------------------------------------------ environment

\* The response has been delivered: the invocation is over.
Deliver(r) ==
  /\ reqs[r].pc = "done"
  /\ reqs' = [reqs EXCEPT ![r] = IdleReq]
  /\ UNCHANGED <<configVars, upstream, clock, ticks, cacheVars, outbound, pgVars, nzVars, itVars, uiVars>>

\* The validity window of the deployed version (the job has no cache: the
\* window of the version that reads its snapshot).
CacheDuration == IF variant = "route" THEN CACHE_DURATION_route ELSE CACHE_DURATION_page

\* The batch size of the deployed version.
BatchSize ==
  CASE variant = "route" -> batchSize_route
    [] variant = "page" -> batchSize_page
    [] variant = "script" -> batchSize_script

\* Time passes: by the delay between batches, or by the validity window.
\* Date.now() is the wall clock, and a timer fires no earlier than its delay:
\* the code puts no upper bound on the time between two of its turns, so a
\* refresh cycle (of many batches, or in a process that was suspended) can
\* last as long as the window.
TimeSteps == {BATCH_DELAY, CacheDuration}

Tick(d) ==
  /\ Returned
  /\ ticks < MaxTicks
  /\ clock' = clock + d
  /\ ticks' = ticks + 1
  /\ UNCHANGED <<configVars, upstream, cacheVars, reqs, outbound, pgVars, nzVars, itVars, uiVars>>

\* The deployments that are explored: the version, the number of configured
\* ids (none, one batch, one batch and a bit), the credential, the snapshot
\* file and the state of the note service.
AllUp == World({}, {})
SomeDown == World({"B"}, {"D"})
MidDown == World({"B"}, {"C"})
LateDown == World({"D"}, {"E"})
AllDown == World({"E"}, IdSet \ {"E"})

Scenario(v, n, key, file, world) ==
  [variant |-> v, n |-> n, apiKey |-> key, staticData |-> file, upstream |-> world]

Scenarios ==
  {Scenario("route", 0, TRUE, Null, AllUp),
   Scenario("route", 2, TRUE, Null, AllUp),
   Scenario("route", 2, TRUE, Null, SomeDown),
   Scenario("route", 2, TRUE, Null, AllDown),
   Scenario("route", 4, TRUE, Null, SomeDown),
   Scenario("route", 2, FALSE, Null, AllUp),
   Scenario("page", 0, TRUE, Null, AllUp),
   Scenario("page", 2, TRUE, Null, AllUp),
   Scenario("page", 2, TRUE, Null, SomeDown),
   Scenario("page", 2, TRUE, Null, AllDown),
   Scenario("page", 6, TRUE, Null, LateDown),
   Scenario("page", 2, TRUE, [posts |-> <<>>], AllUp),
   Scenario("page", 2, TRUE, [posts |-> StaticPosts], AllUp),
   Scenario("page", 2, TRUE, [timestamp |-> 0], AllUp),
   Scenario("page", 2, FALSE, Null, AllUp),
   Scenario("page", 2, FALSE, [posts |-> StaticPosts], AllUp),
   Scenario("script", 0, TRUE, Null, AllUp),
   Scenario("script", 2, TRUE, Null, AllUp),
   Scenario("script", 4, TRUE, Null, MidDown),
   Scenario("script", 2, FALSE, Null, AllUp)}

\* The normalizer and the single-item endpoint under test: none.
\* No component is mounted.
UiIdle ==
  /\ component = "none"
  /\ srvPosts = <<>>
  /\ srvPublished = 0
  /\ spPosts = <<>>
  /\ spPagination = Null
  /\ spLoading = FALSE
  /\ spError = Null
  /\ spFetch = Null
  /\ spLast = Null
  /\ plPosts = <<>>
  /\ plLoading = FALSE
  /\ plLoadingMore = FALSE
  /\ plHasMore = FALSE
  /\ plPage = 0
  /\ plError = Null
  /\ plFetches = {}
  /\ plIssued = 0
  /\ plMounted = FALSE
  /\ plLast = Null

NzIdle ==
  /\ nzNote = Null
  /\ nzPipeline = "none"
  /\ nzPost = Null

ItIdle ==
  /\ itVersion = "none"
  /\ itId = "none"
  /\ itOutcome = Null
  /\ itResp = Null

\* More deployments, explored with one invocation at a time: lists that are
\* exactly one batch and exactly two batches long.
FullBatchScenarios ==
  {Scenario("route", 3, TRUE, Null, AllUp),
   Scenario("route", 6, TRUE, Null, LateDown),
   Scenario("page", 5, TRUE, Null, SomeDown),
   Scenario("script", 3, TRUE, Null, AllUp),
   Scenario("script", 6, TRUE, Null, LateDown)}

ServerInitOf(scenarios) ==
  /\ \E sc \in scenarios :
       /\ variant = sc.variant
       /\ noteIds = Slice(AllIds, 0, sc.n)
       /\ apiKey = sc.apiKey
       /\ staticData = sc.staticData
       /\ upstream = sc.upstream
  /\ clock = StartTime
  /\ ticks = 0
  /\ postsCache = NullArray
  /\ cacheTimestamp = 0
  /\ memoryCache = Null
  /\ reqs = [r \in Requests |-> IdleReq]
  /\ outbound = {}

ServerInit == ServerInitOf(Scenarios)

PgIdle ==
  /\ pgPath = "none"
  /\ pgColl = <<>>
  /\ pgLimit = 0
  /\ pgPage = 0
  /\ pgAcc = <<>>
  /\ pgResp = Null

Init ==
  /\ ServerInit
  /\ PgIdle
  /\ NzIdle
  /\ ItIdle
  /\ UiIdle

InitSequential ==
  /\ ServerInitOf(Scenarios \cup FullBatchScenarios)
  /\ PgIdle
  /\ NzIdle
  /\ ItIdle
  /\ UiIdle

Next ==
  \/ \E r \in Requests, q \in Queries : RouteGET(r, q[1], q[2])
  \/ \E r \in Requests, idx \in 1..Len(noteIds) : RouteSettle(r, idx)
  \/ \E r \in Requests : RouteDelayDone(r)
  \/ \E r \in Requests, q \in Queries : PageGET(r, q[1], q[2])
  \/ \E r \in Requests, idx \in 1..Len(noteIds) : PageSettle(r, idx)
  \/ \E r \in Requests : PageDelayDone(r)
  \/ \E r \in Requests : ScriptMain(r)
  \/ \E r \in Requests, idx \in 1..Len(noteIds) : ScriptSettle(r, idx)
  \/ \E r \in Requests : ScriptDelayDone(r)
  \/ \E r \in Requests : Deliver(r)
  \/ \E d \in TimeSteps : Tick(d)

Spec == Init /\ [][Next]_vars

\* The same with one invocation at a time: no read arrives while another is
\* in progress.
NextSequential ==
  \/ \E q \in Queries : RouteGET(1, q[1], q[2])
  \/ \E idx \in 1..Len(noteIds) : RouteSettle(1, idx)
  \/ RouteDelayDone(1)
  \/ \E q \in Queries : PageGET(1, q[1], q[2])
  \/ \E idx \in 1..Len(noteIds) : PageSettle(1, idx)
  \/ PageDelayDone(1)
  \/ ScriptMain(1)
  \/ \E idx \in 1..Len(noteIds) : ScriptSettle(1, idx)
  \/ ScriptDelayDone(1)
  \/ Deliver(1)
  \/ \E d \in TimeSteps : Tick(d)

SpecSequential == InitSequential /\ [][NextSequential]_vars

\* The batches of the list that start after the batch at position i.
BatchesAfter(i) ==
  (Max(Len(noteIds) - i - BatchSize, 0) + BatchSize - 1) \div BatchSize

\* The delays that the invocation at r has still to wait for.
DelaysLeft(r) ==
  CASE reqs[r].pc = "fetching" -> BatchesAfter(reqs[r].i)
    [] reqs[r].pc = "delay" ->
         (IF clock < reqs[r].wake THEN 1 ELSE 0) + BatchesAfter(reqs[r].i + BatchSize)
    [] OTHER -> 0

\* The clock advances MaxTicks times at most: enough of that is left for the
\* delays of the cycle in progress.
TimeLeft == ticks + DelaysLeft(1) <= MaxTicks

\* One invocation at a time, started and given time only while enough time
\* is left for its cycle; every fetch settles in the end, every timer that
\* is due fires, time passes, and a response is delivered.
NextLive == NextSequential /\ TimeLeft'

Fairness ==
  /\ \A idx \in 1..Len(AllIds) :
       /\ WF_vars(RouteSettle(1, idx))
       /\ WF_vars(PageSettle(1, idx))
       /\ WF_vars(ScriptSettle(1, idx))
  /\ WF_vars(RouteDelayDone(1))
  /\ WF_vars(PageDelayDone(1))
  /\ WF_vars(ScriptDelayDone(1))
  /\ WF_vars(Deliver(1))
  /\ WF_vars(Tick(BATCH_DELAY) /\ TimeLeft')

SpecLive == InitSequential /\ [][NextLive]_vars /\ Fairness

\* ------------------------------------------------- paging through a collection

\* The five places that build a page of posts.
PgPaths == {"route cache", "route fresh", "page static", "page cache", "page fresh"}

\* A post of the paged collection.
PgPost(k) ==
  [id |-> k, title |-> <<"a">>, tags |-> <<>>, createdAt |-> k,
   updatedAt |-> MaxLen + 1 - k, excerpt |-> NO_CONTENT]

PgCollection(n) == [k \in 1..n |-> PgPost(k)]

\* The response of a path for a collection.
PgResponse(path, coll, page, limit) ==
  CASE path = "route cache" -> CachedResponse(coll, page, limit)
    [] path = "route fresh" -> FreshResponse(coll, page, limit)
    [] path = "page static" -> StaticResponse(coll, page, limit)
    [] path = "page cache" -> MemoryCachedResponse(coll, page, limit)
    [] path = "page fresh" -> FreshResponsePage(coll, 0, page, limit)

\* A client and a collection; the snapshot path is taken for a snapshot with
\* posts only.
PgInit ==
  /\ ServerInit
  /\ variant = "route" /\ Len(noteIds) = 0
  /\ pgPath \in PgPaths
  /\ pgColl \in {PgCollection(n) : n \in 0..MaxLen}
  /\ pgPath = "page static" => Len(pgColl) > 0
  /\ pgLimit \in 1..MaxLimit
  /\ pgPage = 1
  /\ pgAcc = <<>>
  /\ pgResp = Null
  /\ NzIdle
  /\ ItIdle
  /\ UiIdle

\* The client asks for pages 1, 2, 3, ... while hasMore is true and
\* concatenates the slices.
PgNextPage ==
  /\ pgPage >= 1
  /\ pgPage <= MaxLen + 1
  /\ pgResp # Null => pgResp.pagination.hasMore
  /\ LET response == PgResponse(pgPath, pgColl, pgPage, pgLimit)
     IN  /\ pgResp' = response
         /\ pgAcc' = pgAcc \o response.posts
         /\ pgPage' = pgPage + 1
  /\ UNCHANGED <<serverVars, pgPath, pgColl, pgLimit, nzVars, itVars, uiVars>>

\* The client asks for one page, any page, and stops.
PgProbe(page) ==
  /\ pgPage = 1
  /\ pgResp = Null
  /\ LET response == PgResponse(pgPath, pgColl, page, pgLimit)
     IN  /\ pgResp' = response
         /\ pgAcc' = response.posts
         /\ pgPage' = 0
  /\ UNCHANGED <<serverVars, pgPath, pgColl, pgLimit, nzVars, itVars, uiVars>>

PgNext ==
  \/ PgNextPage
  \/ \E page \in 1..MaxPage : PgProbe(page)

SpecPaginate == PgInit /\ [][PgNext]_vars

\* ------------------------------------------------------- the normalizer

\* A text of n characters that starts with lead: no two neighbours of the
\* rest are the same character.
NzText(n, lead) ==
  [k \in 1..n |-> IF k <= Len(lead) THEN lead[k]
                  ELSE IF k % 2 = 0 THEN "a" ELSE "b"]

NzLengths ==
  {1, 2, EXCERPT_LENGTH - 1, EXCERPT_LENGTH}
    \cup {EXCERPT_LENGTH + k : k \in 1..MaxOver}

\* The contents a note is given: none, the empty string, and texts around
\* the excerpt length, plain and with markdown characters.
NzContents ==
  {Undefined, <<>>}
    \cup {NzText(n, lead) : n \in NzLengths, lead \in {<<>>, <<"#">>, <<"a", "*">>}}

NzTitles == {Undefined, <<>>, <<" ">>, <<"a">>}

NzNotes ==
  {[title |-> t, tags |-> <<>>, createdAt |-> 1, updatedAt |-> 2, content |-> c] :
     t \in NzTitles, c \in NzContents}

NzPipelines == {"route", "page", "script"}

NzInit ==
  /\ ServerInit
  /\ variant = "route" /\ Len(noteIds) = 0
  /\ pgPath = "none" /\ pgColl = <<>> /\ pgLimit = 0
  /\ pgPage = 0 /\ pgAcc = <<>> /\ pgResp = Null
  /\ ItIdle
  /\ UiIdle
  /\ nzNote \in NzNotes
  /\ nzPipeline = "none"
  /\ nzPost = Null

\* The note is fetched and the callback of pipeline p makes its post.
Normalize(p) ==
  /\ nzPipeline = "none"
  /\ nzPipeline' = p
  /\ nzPost' = CASE p = "route" -> RoutePost("N", nzNote)
                  [] p = "page" -> PagePost("N", nzNote)
                  [] p = "script" -> ScriptPost("N", nzNote)
  /\ UNCHANGED <<serverVars, pgVars, nzNote, itVars, uiVars>>

NzNext == \E p \in NzPipelines : Normalize(p)

SpecNormalize == NzInit /\ [][NzNext]_vars

\* ------------------------------------------------ the single-item endpoint

\* The note service answers 404 for the id.
NOT_FOUND == [error |-> "404"]

NONE == <<"n", "o", "n", "e">>

\* The posts the script writes for the ids A..D when every fetch succeeds.
ScriptSnapshotPosts ==
  SortByUpdatedAt([k \in 1..4 |-> ScriptPost(AllIds[k], BaseNote(AllIds[k]))])

\* The snapshot files: none, one with three posts, the one the script
\* writes, and one without a posts array.
ItSnapshots ==
  {Null,
   [posts |-> StaticPosts],
   [posts |-> ScriptSnapshotPosts, timestamp |-> StartTime, total |-> 4,
    lastUpdated |-> StartTime],
   [timestamp |-> 0]}

ItVersions == {"id route", "static first"}

\* A field of an object, undefined when the object has no such field.
Field(object, name) == IF name \in DOMAIN object THEN object[name] ELSE Undefined

\* tryReadStaticPost: parsed.posts?.find(p => p.id === id), null when there
\* is no file, no posts array or no such post.
tryReadStaticPost(id) ==
  IF staticData = Null \/ "posts" \notin DOMAIN staticData THEN Null
  ELSE LET hits == SelectSeq(staticData.posts, LAMBDA post : post.id = id)
       IN  IF hits = <<>> THEN Null ELSE Head(hits)

\* A live path without the branch for 404: every response that is not ok
\* is thrown to the catch block.
ItemLiveNo404(id, outcome) ==
  IF ~apiKey
  THEN [status |-> 500, error |-> "API key not configured"]
  ELSE IF outcome = NOT_FOUND \/ outcome = HTTP_ERROR \/ outcome = THROWS
  THEN [status |-> 500, error |-> "Failed to fetch post"]
  ELSE [status |-> 200,
        id |-> id,
        title |-> IF Truthy(outcome.title) THEN outcome.title ELSE UNTITLED,
        content |-> IF Truthy(outcome.content) THEN outcome.content ELSE NO_CONTENT,
        tags |-> IF outcome.tags # Undefined THEN outcome.tags ELSE <<>>,
        createdAt |-> outcome.createdAt,
        updatedAt |-> outcome.updatedAt,
        publishType |-> NONE]

\* GET of [id]/route.ts, and the part of the snapshot-first GET after the
\* snapshot: the credential check, the fetch, 404 for a 404, the catch block
\* for every other failure, the post otherwise.
ItemLive(id, outcome) ==
  IF ~apiKey
  THEN [status |-> 500, error |-> "API key not configured"]
  ELSE IF outcome = NOT_FOUND
  THEN [status |-> 404, error |-> "Post not found"]
  ELSE IF outcome = HTTP_ERROR \/ outcome = THROWS
  THEN [status |-> 500, error |-> "Failed to fetch post"]
  ELSE [status |-> 200,
        id |-> id,
        title |-> IF Truthy(outcome.title) THEN outcome.title ELSE UNTITLED,
        content |-> IF Truthy(outcome.content) THEN outcome.content ELSE NO_CONTENT,
        tags |-> IF outcome.tags # Undefined THEN outcome.tags ELSE <<>>,
        createdAt |-> outcome.createdAt,
        updatedAt |-> outcome.updatedAt,
        publishType |-> NONE]

\* The response made of a post of the snapshot.
ItemStatic(staticPost) ==
  [status |-> 200,
   id |-> staticPost.id,
   title |-> staticPost.title,
   content |-> Field(staticPost, "content"),
   tags |-> staticPost.tags,
   createdAt |-> staticPost.createdAt,
   updatedAt |-> staticPost.updatedAt]

ItOutcomes(id) == {BaseNote(id), NOT_FOUND, HTTP_ERROR, THROWS}

ItInit ==
  /\ variant = "route" /\ noteIds = <<>>
  /\ apiKey \in BOOLEAN
  /\ staticData \in ItSnapshots
  /\ upstream = AllUp
  /\ clock = StartTime /\ ticks = 0
  /\ postsCache = NullArray /\ cacheTimestamp = 0 /\ memoryCache = Null
  /\ reqs = [r \in Requests |-> IdleReq]
  /\ outbound = {}
  /\ pgPath = "none" /\ pgColl = <<>> /\ pgLimit = 0
  /\ pgPage = 0 /\ pgAcc = <<>> /\ pgResp = Null
  /\ NzIdle
  /\ UiIdle
  /\ itVersion \in ItVersions
  /\ itId \in IdSet
  /\ itOutcome \in ItOutcomes(itId)
  /\ itResp = Null

\* GET of [id]/route.ts.
ItemGET ==
  /\ itVersion = "id route"
  /\ itResp = Null
  /\ itResp' = ItemLive(itId, itOutcome)
  /\ UNCHANGED <<serverVars, pgVars, nzVars, itVersion, itId, itOutcome, uiVars>>

\* The snapshot-first GET: the post of the snapshot when there is one, the
\* live path otherwise.
ItemStaticGET ==
  /\ itVersion = "static first"
  /\ itResp = Null
  /\ LET staticPost == tryReadStaticPost(itId)
     IN  itResp' = IF staticPost # Null THEN ItemStatic(staticPost)
                   ELSE ItemLive(itId, itOutcome)
  /\ UNCHANGED <<serverVars, pgVars, nzVars, itVersion, itId, itOutcome, uiVars>>

ItNext == ItemGET \/ ItemStaticGET

SpecItem == ItInit /\ [][ItNext]_vars

\* ---------------------------------------------------------------------
\* The infinite-scroll components and the list endpoint they page through.
\* A state update and the render that follows it are one step: an event
\* handler sees the state of the latest render.

\* InfiniteScrollPosts asks for /api/posts?page=..&limit=5.
SCROLL_LIMIT == 5
\* InfinitePostList asks for /api/posts?page=..&limit=10.
LIST_LIMIT == 10

SP_ERROR == [message |-> "load more failed"]
PL_ERROR == [message |-> "Failed to fetch posts"]

Components == {"InfiniteScrollPosts", "InfinitePostList"}

UiPost(k) == [id |-> k]

UiCollection(n) == [k \in 1..n |-> UiPost(k)]

\* The sizes of the collection an InfinitePostList is mounted on: none, one
\* post, a full page, a page and a post, two pages and a post.
ListSizes == {0, 1, LIST_LIMIT, LIST_LIMIT + 1, 2 * LIST_LIMIT + 1}

\* The 200 response of GET /api/posts for the collection as it is now.
ServerPage(page, limit) == FreshResponse(srvPosts, page, limit)

SpIdle ==
  /\ spPosts = <<>>
  /\ spPagination = Null
  /\ spLoading = FALSE
  /\ spError = Null
  /\ spFetch = Null
  /\ spLast = Null

PlIdle ==
  /\ plPosts = <<>>
  /\ plLoading = FALSE
  /\ plLoadingMore = FALSE
  /\ plHasMore = FALSE
  /\ plPage = 0
  /\ plError = Null
  /\ plFetches = {}
  /\ plIssued = 0
  /\ plMounted = FALSE
  /\ plLast = Null

\* The server state that the components do not touch.
UiServerIdle ==
  /\ variant = "route" /\ noteIds = <<>>
  /\ apiKey = TRUE
  /\ staticData = Null
  /\ upstream = AllUp
  /\ clock = StartTime /\ ticks = 0
  /\ postsCache = NullArray /\ cacheTimestamp = 0 /\ memoryCache = Null
  /\ reqs = [r \in Requests |-> IdleReq]
  /\ outbound = {}
  /\ PgIdle
  /\ NzIdle
  /\ ItIdle

\* InfiniteScrollPosts as page-new.tsx mounts it, which it does for a
\* collection that is not empty: initialPosts and initialPagination are
\* page 1 of the collection with limit 5.
ScrollInit ==
  /\ UiServerIdle
  /\ component = "InfiniteScrollPosts"
  /\ srvPosts \in {UiCollection(n) : n \in 1..MaxPosts}
  /\ srvPublished = 0
  /\ spPosts = ServerPage(1, SCROLL_LIMIT).posts
  /\ spPagination = ServerPage(1, SCROLL_LIMIT).pagination
  /\ spLoading = FALSE
  /\ spError = Null
  /\ spFetch = Null
  /\ spLast = Null
  /\ PlIdle

\* InfinitePostList after its useState calls, before its effects.
ListInit ==
  /\ UiServerIdle
  /\ component = "InfinitePostList"
  /\ srvPosts \in {UiCollection(n) : n \in ListSizes}
  /\ srvPublished = 0
  /\ SpIdle
  /\ plPosts = <<>>
  /\ plLoading = TRUE
  /\ plLoadingMore = FALSE
  /\ plHasMore = TRUE
  /\ plPage = 1
  /\ plError = Null
  /\ plFetches = {}
  /\ plIssued = 0
  /\ plMounted = FALSE
  /\ plLast = Null

UiInit == ScrollInit \/ ListInit

\* A refresh of the server's cache brings a newly updated post to the head
\* of the collection.
Publish ==
  /\ component = "InfiniteScrollPosts"
  /\ srvPublished < MaxPublished
  /\ srvPosts' = <<UiPost(Len(srvPosts) + 1)>> \o srvPosts
  /\ srvPublished' = srvPublished + 1
  /\ UNCHANGED <<component, spVars, plVars, serverVars, pgVars, nzVars, itVars>>

\* loadMorePosts up to its await fetch: called by the scroll handler, by the
\* load-more button and by the retry button of the error box.
loadMorePosts ==
  /\ component = "InfiniteScrollPosts"
  /\ ~(spLoading \/ ~spPagination.hasMore)
  /\ spLoading' = TRUE
  /\ spError' = Null
  /\ spFetch' = [nextPage |-> spPagination.page + 1, posts |-> spPosts,
                 retry |-> spError # Null]
  /\ UNCHANGED <<spPosts, spPagination, spLast>>
  /\ UNCHANGED <<srvVars, plVars, serverVars, pgVars, nzVars, itVars>>

\* The posts of a response that the list of the calling render does not hold.
NewPostsAppendAll(dataPosts, posts) == dataPosts

NewPosts(dataPosts, posts) ==
  LET isNew(newPost) ==
        ~\E k \in 1..Len(posts) : posts[k].id = newPost.id
  IN  SelectSeq(dataPosts, isNew)

\* A successful load that leaves hasMore as it is when the end is reached.
ScrollResolveNeverEnds ==
  /\ component = "InfiniteScrollPosts"
  /\ spFetch # Null
  /\ LET data == ServerPage(spFetch.nextPage, SCROLL_LIMIT)
         newPosts == NewPosts(data.posts, spFetch.posts)
     IN  IF Len(newPosts) = 0 \/ ~data.pagination.hasMore
         THEN /\ spLast' = [retry |-> spFetch.retry, ok |-> TRUE,
                            received |-> data.posts, appended |-> <<>>]
              /\ UNCHANGED <<spPosts, spPagination>>
         ELSE /\ spPosts' = spPosts \o newPosts
              /\ spPagination' = data.pagination
              /\ spLast' = [retry |-> spFetch.retry, ok |-> TRUE,
                            received |-> data.posts, appended |-> newPosts]
  /\ spLoading' = FALSE
  /\ spFetch' = Null
  /\ UNCHANGED spError
  /\ UNCHANGED <<srvVars, plVars, serverVars, pgVars, nzVars, itVars>>

\* loadMorePosts from the fetch's 200 response to the end, finally included.
loadMorePostsResolve ==
  /\ component = "InfiniteScrollPosts"
  /\ spFetch # Null
  /\ LET data == ServerPage(spFetch.nextPage, SCROLL_LIMIT)
         newPosts == NewPosts(data.posts, spFetch.posts)
     IN  IF Len(newPosts) = 0 \/ ~data.pagination.hasMore
         THEN /\ spPagination' = [spPagination EXCEPT !.hasMore = FALSE]
              /\ spLast' = [retry |-> spFetch.retry, ok |-> TRUE,
                            received |-> data.posts, appended |-> <<>>]
              /\ UNCHANGED spPosts
         ELSE /\ spPosts' = spPosts \o newPosts
              /\ spPagination' = data.pagination
              /\ spLast' = [retry |-> spFetch.retry, ok |-> TRUE,
                            received |-> data.posts, appended |-> newPosts]
  /\ spLoading' = FALSE
  /\ spFetch' = Null
  /\ UNCHANGED spError
  /\ UNCHANGED <<srvVars, plVars, serverVars, pgVars, nzVars, itVars>>

\* loadMorePosts when the response is not ok or the fetch throws: the catch
\* and the finally.
loadMorePostsReject ==
  /\ component = "InfiniteScrollPosts"
  /\ spFetch # Null
  /\ spError' = SP_ERROR
  /\ spLoading' = FALSE
  /\ spFetch' = Null
  /\ spLast' = [retry |-> spFetch.retry, ok |-> FALSE,
                received |-> <<>>, appended |-> <<>>]
  /\ UNCHANGED <<spPosts, spPagination>>
  /\ UNCHANGED <<srvVars, plVars, serverVars, pgVars, nzVars, itVars>>

\* fetchPosts up to its await fetch.
fetchPosts(pageNum, append, origin) ==
  /\ plIssued < MaxFetches
  /\ plLoading' = IF ~append THEN TRUE ELSE plLoading
  /\ plLoadingMore' = IF ~append THEN plLoadingMore ELSE TRUE
  /\ plFetches' = plFetches \cup {[pageNum |-> pageNum, append |-> append,
                                   origin |-> origin, serial |-> plIssued + 1]}
  /\ plIssued' = plIssued + 1
  /\ UNCHANGED <<plPosts, plHasMore, plPage, plError, plLast>>
  /\ UNCHANGED <<srvVars, spVars, serverVars, pgVars, nzVars, itVars>>

\* The effect that runs once after the first render: fetchPosts(1).
Mount ==
  /\ component = "InfinitePostList"
  /\ ~plMounted
  /\ plMounted' = TRUE
  /\ fetchPosts(1, FALSE, "mount")

\* loadMore, called by the throttled scroll handler, which listens from the
\* mount on whatever is rendered, and by the load-more button.
loadMore ==
  /\ component = "InfinitePostList"
  /\ plMounted
  /\ ~plLoadingMore /\ plHasMore
  /\ fetchPosts(plPage + 1, TRUE, "loadMore")
  /\ UNCHANGED plMounted

\* The render returns the error box.
ErrorView ==
  /\ ~(plLoading /\ Len(plPosts) = 0)
  /\ plError # Null

\* The button of the error box: fetchPosts(1).
Retry ==
  /\ component = "InfinitePostList"
  /\ plMounted
  /\ ErrorView
  /\ fetchPosts(1, FALSE, "retry")
  /\ UNCHANGED plMounted

\* fetchPosts from the fetch's 200 response to the end, finally included.
fetchPostsResolve(f) ==
  /\ component = "InfinitePostList"
  /\ f \in plFetches
  /\ LET data == ServerPage(f.pageNum, LIST_LIMIT)
     IN  /\ plPosts' = IF f.append THEN plPosts \o data.posts ELSE data.posts
         /\ plHasMore' = data.pagination.hasMore
         /\ plPage' = f.pageNum
         /\ plLast' = [origin |-> f.origin, ok |-> TRUE, received |-> data.posts]
  /\ plLoading' = FALSE
  /\ plLoadingMore' = FALSE
  /\ plFetches' = plFetches \ {f}
  /\ UNCHANGED <<plError, plIssued, plMounted>>
  /\ UNCHANGED <<srvVars, spVars, serverVars, pgVars, nzVars, itVars>>

\* fetchPosts when the response is not ok or the fetch throws.
fetchPostsReject(f) ==
  /\ component = "InfinitePostList"
  /\ f \in plFetches
  /\ plError' = PL_ERROR
  /\ plLast' = [origin |-> f.origin, ok |-> FALSE, received |-> <<>>]
  /\ plLoading' = FALSE
  /\ plLoadingMore' = FALSE
  /\ plFetches' = plFetches \ {f}
  /\ UNCHANGED <<plPosts, plHasMore, plPage, plIssued, plMounted>>
  /\ UNCHANGED <<srvVars, spVars, serverVars, pgVars, nzVars, itVars>>

UiNext ==
  \/ Publish
  \/ loadMorePosts
  \/ loadMorePostsResolve
  \/ loadMorePostsReject
  \/ Mount
  \/ loadMore
  \/ Retry
  \/ \E f \in plFetches : fetchPostsResolve(f)
  \/ \E f \in plFetches : fetchPostsReject(f)

SpecUi == UiInit /\ [][UiNext]_vars

\* InfiniteScrollPosts when every request succeeds and load-more keeps being
\* triggered while the component lets it.
ScrollNextOk ==
  \/ Publish
  \/ loadMorePosts
  \/ loadMorePostsResolve

ScrollFairness ==
  /\ WF_vars(loadMorePosts)
  /\ WF_vars(loadMorePostsResolve)

SpecScrollLive == ScrollInit /\ [][ScrollNextOk]_vars /\ ScrollFairness

\* ------------------------------------------------------------------ claims

\* The client has paged from page 1 and the last response said hasMore = false.
PgFinished == pgPage >= 2 /\ pgResp # Null /\ ~pgResp.pagination.hasMore

\* C1: for a fixed collection and a positive limit, the slices of pages 1, 2,
\* 3, ... up to the page whose hasMore is false, concatenated, are the
\* collection: every post once, in order; on every path that builds a page.
C1_PagesReproduceCollection == PgFinished => pgAcc = pgColl

\* C1 witness: a collection longer than the limit has been paged to its end.
C1_Witness ==
  /\ PgFinished
  /\ pgPage >= 4
  /\ Len(pgColl) = MaxLen
  /\ pgAcc = pgColl
  /\ pgPath = "page static"

\* C2: for every page >= 1 and positive limit, hasMore is true exactly when
\* (page - 1) * limit + limit < total, total being the length of the
\* collection that was sliced.
C2_HasMoreIff ==
  pgResp # Null =>
    LET pg == pgResp.pagination
    IN  /\ pg.total = Len(pgColl)
        /\ pg.page >= 1 /\ pg.limit >= 1
        /\ pg.hasMore <=> ((pg.page - 1) * pg.limit + pg.limit < pg.total)

\* C2 witness: a response whose page ends exactly at the end of the
\* collection, so that hasMore is false with a full page.
C2_Witness ==
  /\ pgResp # Null
  /\ pgResp.pagination.page * pgResp.pagination.limit = Len(pgColl)
  /\ pgResp.pagination.page >= 2
  /\ ~pgResp.pagination.hasMore
  /\ pgPath = "route cache"

\* C3: for every page >= 1 and positive limit with (page - 1) * limit >= total
\* (total = 0 included) the response is a normal one with no posts and
\* hasMore = false.
C3_BeyondEndIsEmpty ==
  (pgResp # Null /\ (pgResp.pagination.page - 1) * pgResp.pagination.limit >= Len(pgColl)) =>
    /\ pgResp.status = 200
    /\ pgResp.posts = <<>>
    /\ ~pgResp.pagination.hasMore

\* C3 witness: a page beyond the end of a collection that has posts.
C3_Witness ==
  /\ pgResp # Null
  /\ Len(pgColl) > 0
  /\ (pgResp.pagination.page - 1) * pgResp.pagination.limit > Len(pgColl)
  /\ pgResp.posts = <<>>

\* C3 witness for the empty collection.
C3_WitnessEmpty ==
  /\ pgResp # Null
  /\ Len(pgColl) = 0
  /\ pgResp.pagination.page = 1
  /\ pgResp.posts = <<>>

\* --------------------------------------------- claims on the refresh cycle

\* The invocation at r is in a refresh cycle: a batch is in flight or the
\* delay between two batches is running.
InCycle(r) == reqs[r].pc \in {"fetching", "delay"}

\* The invocation at r has just completed a refresh cycle.
Refreshed(r) ==
  /\ reqs[r].pc = "done"
  /\ \/ reqs[r].found \in {"cold", "stale"}
     \/ variant = "script" /\ apiKey

\* The collection and the timestamp that the deployed version keeps: the
\* in-memory cache of an endpoint, the snapshot file of the script.
CachedPosts ==
  CASE variant = "route" -> postsCache
    [] variant = "page" -> IF memoryCache = Null THEN NullArray ELSE memoryCache.posts
    [] variant = "script" -> IF staticData = Null THEN NullArray ELSE staticData.posts

CachedAt ==
  CASE variant = "route" -> cacheTimestamp
    [] variant = "page" -> IF memoryCache = Null THEN 0 ELSE memoryCache.lastUpdated
    [] variant = "script" -> IF staticData = Null THEN 0 ELSE staticData.timestamp

HasPost(posts, id) == \E k \in 1..Len(posts) : posts[k].id = id

FetchSucceeds(id) == upstream[id] # HTTP_ERROR /\ upstream[id] # THROWS

\* The batch, counted from 0, of the id at position idx (from 1) of the list.
BatchOf(idx) == (idx - 1) \div BatchSize

SortedByUpdatedAt(posts) ==
  \A k \in 1..(Len(posts) - 1) : posts[k].updatedAt >= posts[k + 1].updatedAt

\* C4: within one refresh cycle no fetch of a batch is issued before every
\* fetch of the batches before it has settled: while a fetch of the id at idx
\* is outstanding, no id beyond the batch of idx has been fetched.  In the
\* two endpoints and in the snapshot script.
C4_BatchBarrier ==
  \A r \in Requests : \A idx \in 1..Len(noteIds) :
    <<r, idx>> \in outbound =>
      /\ Len(reqs[r].issued) <= (BatchOf(idx) + 1) * BatchSize
      /\ idx <= Len(reqs[r].issued)

\* C4 witness: the second batch is in flight, one of its fetches settled and
\* one outstanding, after the whole first batch was fetched.
C4_Witness ==
  \E r \in Requests :
    /\ variant = "route"
    /\ reqs[r].pc = "fetching"
    /\ reqs[r].i = batchSize_route
    /\ Len(reqs[r].allResults) = batchSize_route
    /\ <<r, 4>> \in outbound

\* C4 witness in the snapshot script.
C4_WitnessScript ==
  /\ variant = "script"
  /\ reqs[1].pc = "fetching"
  /\ reqs[1].i = batchSize_script
  /\ <<1, 4>> \in outbound

\* C4 witness in page.tsx, whose batches are of five.
C4_WitnessPage ==
  \E r \in Requests :
    /\ variant = "page"
    /\ reqs[r].pc = "fetching"
    /\ reqs[r].i = batchSize_page
    /\ <<r, 6>> \in outbound

\* The invocation answered without an error: status 200 from an endpoint,
\* exit code 0 from the script.
AnsweredOk(r) ==
  IF variant = "script" THEN reqs[r].response = [exit |-> 0]
  ELSE reqs[r].response.status = 200

\* A title that is present and has a character that is not white space.
NonBlank(title) ==
  title # Undefined /\ \E k \in 1..Len(title) : title[k] # " "

\* Some fetches of the cycle fail and some succeed.
MixedOutcomes ==
  /\ \E idx \in 1..Len(noteIds) : FetchSucceeds(noteIds[idx])
  /\ \E idx \in 1..Len(noteIds) : ~FetchSucceeds(noteIds[idx])

\* C5 as stated: a refresh cycle in which fetches fail ends without an error,
\* after every batch was fetched, with a post for every id whose fetch
\* succeeded and none for an id whose fetch failed.
C5_PostForEverySuccess ==
  \A r \in Requests :
    (Refreshed(r) /\ MixedOutcomes) =>
      /\ AnsweredOk(r)
      /\ reqs[r].issued = noteIds
      /\ \A idx \in 1..Len(noteIds) :
           FetchSucceeds(noteIds[idx]) <=> HasPost(CachedPosts, noteIds[idx])

\* C5: a refresh cycle in which fetches fail ends without an error, after
\* every batch was fetched, with no post for an id whose fetch failed and with
\* a post for every id whose fetch succeeded, except that page.tsx makes no
\* post of a note whose title is absent, empty or blank.
C5_FailuresDoNotAbort ==
  \A r \in Requests :
    Refreshed(r) =>
      /\ AnsweredOk(r)
      /\ reqs[r].issued = noteIds
      /\ \A idx \in 1..Len(noteIds) :
           LET id == noteIds[idx]
           IN  /\ ~FetchSucceeds(id) => ~HasPost(CachedPosts, id)
               /\ (FetchSucceeds(id) /\ variant # "page") => HasPost(CachedPosts, id)
               /\ (FetchSucceeds(id) /\ variant = "page") =>
                     (HasPost(CachedPosts, id) <=> NonBlank(upstream[id].title))

\* C5 witness: a cycle of two batches of route.ts has completed in which a
\* fetch got an error response, another threw, and the fetch of the second
\* batch succeeded.
C5_Witness ==
  \E r \in Requests :
    /\ variant = "route"
    /\ Refreshed(r)
    /\ Len(noteIds) > batchSize_route
    /\ upstream["B"] = HTTP_ERROR /\ upstream["D"] = THROWS
    /\ HasPost(CachedPosts, "A") /\ HasPost(CachedPosts, "C")
    /\ ~HasPost(CachedPosts, "B") /\ ~HasPost(CachedPosts, "D")

\* C5 witness in page.tsx: a cycle of two batches in which a fetch got an
\* error response and another threw, and a note with an empty title was
\* fetched and left out.
C5_WitnessPage ==
  \E r \in Requests :
    /\ variant = "page"
    /\ Refreshed(r)
    /\ Len(noteIds) > batchSize_page
    /\ upstream["D"] = HTTP_ERROR /\ upstream["E"] = THROWS
    /\ HasPost(CachedPosts, "A") /\ HasPost(CachedPosts, "F")
    /\ ~HasPost(CachedPosts, "D") /\ ~HasPost(CachedPosts, "E")
    /\ FetchSucceeds("B") /\ upstream["B"].title = <<>> /\ ~HasPost(CachedPosts, "B")

\* The age of the cached collection is within the window of the deployed
\* endpoint, with the credential set and no snapshot file.
Warm ==
  /\ variant \in {"route", "page"}
  /\ apiKey
  /\ staticData = Null
  /\ CachedPosts # NullArray
  /\ clock - CachedAt < CacheDuration

\* The page of the collection that the query of the invocation at r asks for.
PageOf(posts, st) ==
  SubSeq(posts, Min((st.page - 1) * st.limit, Len(posts)) + 1,
         Min(st.page * st.limit, Len(posts)))

\* C6: a list read that arrives while the cache is within its window, alone
\* or while other invocations are in progress, is answered in that step with
\* the page of the cached collection, issues no fetch and leaves the
\* collection and the timestamp of the cache as they were.
C6_WarmReadsServedFromCache ==
  [][\A r \in Requests :
       (Warm /\ reqs[r].pc = "idle" /\ reqs'[r].pc # "idle") =>
         /\ reqs'[r].pc = "done"
         /\ reqs'[r].response.status = 200
         /\ reqs'[r].response.posts = PageOf(CachedPosts, reqs'[r])
         /\ reqs'[r].response.pagination.total = Len(CachedPosts)
         /\ reqs'[r].issued = <<>>
         /\ outbound' = outbound
         /\ cacheVars' = cacheVars]_vars

\* C6 witness: a read has been answered from a cache that is one second old
\* and holds posts.
C6_Witness ==
  \E r \in Requests :
    /\ Warm
    /\ reqs[r].pc = "done" /\ reqs[r].found = "warm"
    /\ clock - CachedAt = BATCH_DELAY
    /\ reqs[r].response.posts # <<>>
    /\ reqs[r].response.posts = PageOf(CachedPosts, reqs[r])
    /\ outbound = {}

\* C6 witness with concurrency: a read has been answered from the cache while
\* another invocation, which started before the cache was written, is still
\* fetching.
C6_WitnessConcurrent ==
  \E r, q \in Requests :
    /\ Warm
    /\ reqs[r].pc = "done" /\ reqs[r].found = "warm"
    /\ InCycle(q)
    /\ outbound # {}

\* C7: a read that finds the cache expired, with no other invocation in
\* progress, runs one refresh cycle over all the configured ids, and when the
\* cycle completes the timestamp of the cache is such that a read arriving
\* then is within the window.
C7_ExpiredReadRefreshes ==
  \A r \in Requests :
    (reqs[r].pc = "done" /\ reqs[r].found = "stale") =>
      /\ reqs[r].issued = noteIds
      /\ CachedAt = reqs[r].now
      /\ clock - CachedAt < CacheDuration

\* C7: the part that holds: one cycle over all the ids, and the timestamp of
\* the cache becomes the time at which the read arrived.
C7_ExpiredReadRefreshesOnce ==
  \A r \in Requests :
    (reqs[r].pc = "done" /\ reqs[r].found = "stale") =>
      /\ reqs[r].issued = noteIds
      /\ CachedAt = reqs[r].now

\* A read that found the cache expired has completed its cycle in less than
\* the window.
C7_Witness ==
  \E r \in Requests :
    /\ reqs[r].pc = "done" /\ reqs[r].found = "stale"
    /\ Len(noteIds) > 0
    /\ clock - CachedAt < CacheDuration

\* C8: whenever the cache of an endpoint holds a collection, the collection
\* is in non-increasing order of updatedAt, and the posts of a response that
\* is made from it are a run of it, in its order.
C8_CacheSorted ==
  /\ (variant \in {"route", "page"} /\ CachedPosts # NullArray) =>
        SortedByUpdatedAt(CachedPosts)
  /\ \A r \in Requests :
       (reqs[r].pc = "done" /\ reqs[r].found # "") =>
          reqs[r].response.posts = PageOf(CachedPosts, reqs[r])

\* C8 witness: a cache of two posts that were fetched in the other order.
C8_Witness ==
  /\ variant = "route"
  /\ postsCache # NullArray
  /\ Len(postsCache) = 2
  /\ noteIds[1] = postsCache[2].id /\ noteIds[2] = postsCache[1].id
  /\ postsCache[1].updatedAt > postsCache[2].updatedAt
  /\ \E r \in Requests : reqs[r].pc = "done" /\ reqs[r].found = "warm"

\* C8 witness in page.tsx.
C8_WitnessPage ==
  /\ variant = "page"
  /\ memoryCache # Null
  /\ Len(memoryCache.posts) = 2
  /\ memoryCache.posts[1].id = "F" /\ memoryCache.posts[2].id = "A"

\* No fetch of the invocation at r is outstanding.
NoneOutstanding(r, ob) == \A idx \in 1..Len(noteIds) : <<r, idx>> \notin ob

\* C9 as stated: from the start of a refresh cycle to its completion the
\* collection and the timestamp of the cache are what they were when the
\* cycle started: no step during which an invocation stays in its cycle
\* changes them.
C9_CacheFixedDuringCycle ==
  [][\A r \in Requests :
       (InCycle(r) /\ reqs'[r].pc \in {"fetching", "delay"}) =>
          cacheVars' = cacheVars]_vars

\* C9: a refresh cycle writes the cache once, in the step that completes it:
\* the collection and the timestamp of the cache change only in a step in
\* which an invocation ends its cycle with every id fetched and every fetch
\* settled, and they become the collection that this invocation answers from
\* and the time at which it arrived.  The steps of a cycle before that (a
\* batch, a settling fetch, a delay) leave the cache as it is; the cycle of
\* another invocation that completes meanwhile replaces it.
C9_CacheWrittenOnCompletion ==
  [][(variant \in {"route", "page"} /\ cacheVars' # cacheVars) =>
       \E r \in Requests :
         /\ reqs[r].pc \in {"idle", "fetching"}
         /\ reqs'[r].pc = "done"
         /\ reqs'[r].found \in {"cold", "stale"}
         /\ reqs'[r].issued = noteIds
         /\ NoneOutstanding(r, outbound')
         /\ CachedAt' = reqs'[r].now
         /\ CachedPosts' # NullArray
         /\ reqs'[r].response.status = 200
         /\ reqs'[r].response.pagination.total = Len(CachedPosts')
         /\ reqs'[r].response.posts = PageOf(CachedPosts', reqs'[r])
         /\ \A q \in Requests \ {r} : reqs'[q] = reqs[q]]_vars

\* C9 witness: a cycle of two batches has completed and replaced, collection
\* and timestamp, a cache written earlier, while another invocation is still
\* in its cycle.
C9_Witness ==
  \E r, q \in Requests :
    /\ variant = "route"
    /\ reqs[r].pc = "done" /\ reqs[r].found = "stale"
    /\ Len(noteIds) > batchSize_route
    /\ cacheTimestamp = reqs[r].now
    /\ cacheTimestamp > StartTime
    /\ InCycle(q)

\* C10: after a refresh cycle, in the two endpoints and in the script, a note
\* that was fetched and whose title is empty or blank has no post in the
\* collection, and a note that was fetched and has no title has a post
\* titled "Untitled".
C10_TitleRule ==
  \A r \in Requests :
    Refreshed(r) =>
      \A idx \in 1..Len(noteIds) :
        LET id == noteIds[idx]
            title == upstream[id].title
        IN  FetchSucceeds(id) =>
              /\ (title # Undefined /\ ~NonBlank(title)) => ~HasPost(CachedPosts, id)
              /\ title = Undefined =>
                   \E k \in 1..Len(CachedPosts) :
                     CachedPosts[k].id = id /\ CachedPosts[k].title = UNTITLED

\* What every pipeline does do: a note that was fetched and whose title has a
\* character that is not white space has a post with that title.
C10_TitledNotesKept ==
  \A r \in Requests :
    Refreshed(r) =>
      \A idx \in 1..Len(noteIds) :
        LET id == noteIds[idx]
        IN  (FetchSucceeds(id) /\ NonBlank(upstream[id].title)) =>
              \E k \in 1..Len(CachedPosts) :
                CachedPosts[k].id = id /\ CachedPosts[k].title = upstream[id].title

\* route.ts has made a post titled "Untitled" of a note whose title is empty.
C10_WitnessRoute ==
  \E r \in Requests :
    /\ variant = "route"
    /\ Refreshed(r)
    /\ FetchSucceeds("B")
    /\ upstream["B"].title = <<>>
    /\ \E k \in 1..Len(postsCache) :
         postsCache[k].id = "B" /\ postsCache[k].title = UNTITLED

\* page.tsx has left out a fetched note that has no title.
C10_WitnessPage ==
  \E r \in Requests :
    /\ variant = "page"
    /\ Refreshed(r)
    /\ Len(noteIds) >= 3
    /\ FetchSucceeds("C")
    /\ upstream["C"].title = Undefined
    /\ ~HasPost(CachedPosts, "C")

\* The script has made a post with a blank title of a note whose title is
\* blank.
C10_WitnessScript ==
  /\ variant = "script"
  /\ Refreshed(1)
  /\ Len(noteIds) >= 4
  /\ FetchSucceeds("D")
  /\ \E k \in 1..Len(CachedPosts) :
       CachedPosts[k].id = "D" /\ CachedPosts[k].title = <<" ", " ">>

\* --------------------------------------------------- claims on the posts

\* The first EXCERPT_LENGTH characters of a text, all of it when it is
\* shorter.
FirstChars(text) ==
  IF Len(text) <= EXCERPT_LENGTH THEN text ELSE SubSeq(text, 1, EXCERPT_LENGTH)

\* C11: the excerpt of a post is the first 200 characters of the note's
\* content followed by "..." when the note has content, and "No content
\* available" when it has none.  (Nothing is asked here of a content that
\* is the empty string.)
C11_ExcerptRule ==
  (nzPipeline # "none" /\ nzPost # Null) =>
    LET content == nzNote.content
    IN  /\ content = Undefined => nzPost.excerpt = NO_CONTENT
        /\ (content # Undefined /\ content # <<>>) =>
              nzPost.excerpt = FirstChars(content) \o ELLIPSIS

\* C11, what the pipelines do: route.ts and the script follow the rule and
\* give the placeholder for the empty string too; page.tsx takes the
\* markdown characters out before it cuts, and gives the empty string for a
\* note without content.
C11_ExcerptAsBuilt ==
  (nzPipeline # "none" /\ nzPost # Null) =>
    LET content == nzNote.content
        plain == [k \in 1..Cardinality({j \in 1..Len(content) :
                                          content[j] \notin MarkdownChars}) |->
                    content[CHOOSE j \in 1..Len(content) :
                              /\ content[j] \notin MarkdownChars
                              /\ Cardinality({h \in 1..j :
                                    content[h] \notin MarkdownChars}) = k]]
    IN  IF nzPipeline = "page"
        THEN /\ (content = Undefined \/ content = <<>>) => nzPost.excerpt = <<>>
             /\ (content # Undefined /\ content # <<>>) =>
                   nzPost.excerpt = FirstChars(plain) \o ELLIPSIS
        ELSE /\ (content = Undefined \/ content = <<>>) => nzPost.excerpt = NO_CONTENT
             /\ (content # Undefined /\ content # <<>>) =>
                   nzPost.excerpt = FirstChars(content) \o ELLIPSIS

\* C11 witness: route.ts has cut a content longer than 200 characters.
C11_Witness ==
  /\ nzPipeline = "route"
  /\ nzNote.content # Undefined
  /\ Len(nzNote.content) = EXCERPT_LENGTH + MaxOver
  /\ Len(nzPost.excerpt) = EXCERPT_LENGTH + Len(ELLIPSIS)
  /\ nzPost.excerpt = FirstChars(nzNote.content) \o ELLIPSIS

\* page.tsx has made the excerpt of a content of 201 characters that starts
\* with a hash: characters 2 to 201 and the ellipsis.
C11_WitnessPage ==
  /\ nzPipeline = "page"
  /\ nzPost # Null
  /\ nzNote.content # Undefined
  /\ Len(nzNote.content) = EXCERPT_LENGTH + 1
  /\ nzNote.content[1] = "#"
  /\ nzPost.excerpt = SubSeq(nzNote.content, 2, EXCERPT_LENGTH + 1) \o ELLIPSIS

\* page.tsx has made a post of a note without content: its excerpt is empty.
C11_WitnessPageAbsent ==
  /\ nzPipeline = "page"
  /\ nzPost # Null
  /\ nzNote.content = Undefined
  /\ nzPost.excerpt = <<>>

\* ------------------------------------- claims on credential and snapshot

\* An endpoint is deployed (not the script).
Endpoint == variant \in {"route", "page"}

\* The snapshot file is there and its posts array is not empty.
SnapshotHasPosts ==
  /\ staticData # Null
  /\ "posts" \in DOMAIN staticData
  /\ Len(staticData.posts) > 0

\* No fetch is outstanding and no invocation has issued one.
NothingFetched ==
  /\ outbound = {}
  /\ \A r \in Requests : reqs[r].issued = <<>>

\* C12 as stated: without the credential every list request is answered 500
\* with an error body, whatever the cache and the snapshot, and no fetch is
\* issued.
C12_NoKeyAlways500 ==
  (Endpoint /\ ~apiKey) =>
    /\ NothingFetched
    /\ \A r \in Requests :
         reqs[r].pc = "done" =>
           reqs[r].response.status = 500 /\ "error" \in DOMAIN reqs[r].response

\* C12: without the credential no fetch is issued, and every list request is
\* answered 500 with an error body, except that page.tsx, which looks at the
\* snapshot before the credential, answers 200 from a snapshot that has
\* posts.
C12_NoKey500UnlessSnapshot ==
  (Endpoint /\ ~apiKey) =>
    /\ NothingFetched
    /\ cacheVars = <<NullArray, 0, Null>>
    /\ \A r \in Requests :
         reqs[r].pc = "done" =>
           IF variant = "page" /\ SnapshotHasPosts
           THEN /\ reqs[r].response.status = 200
                /\ reqs[r].response.pagination.total = Len(staticData.posts)
           ELSE /\ reqs[r].response.status = 500
                /\ "error" \in DOMAIN reqs[r].response

\* C12 witness: route.ts has answered 500 for the missing credential.
C12_Witness ==
  \E r \in Requests :
    /\ variant = "route"
    /\ ~apiKey
    /\ Len(noteIds) > 0
    /\ reqs[r].pc = "done"
    /\ reqs[r].response = [status |-> 500, error |-> "API key not configured"]
    /\ outbound = {}

\* C12 witness in page.tsx, without a snapshot.
C12_WitnessPage ==
  \E r \in Requests :
    /\ variant = "page"
    /\ ~apiKey
    /\ staticData = Null
    /\ reqs[r].pc = "done"
    /\ reqs[r].response.status = 500

\* page.tsx has answered 200 from the snapshot without the credential.
C12_WitnessSnapshot ==
  \E r \in Requests :
    /\ variant = "page"
    /\ ~apiKey
    /\ SnapshotHasPosts
    /\ reqs[r].pc = "done"
    /\ reqs[r].response.status = 200

\* C13: in page.tsx, while the snapshot file has posts, every list read is
\* answered 200 with the page of the snapshot; no fetch is issued, the cache
\* is never written, and the snapshot stays what it was, however much time
\* passes.
C13_SnapshotServesReads ==
  (variant = "page" /\ SnapshotHasPosts) =>
    /\ NothingFetched
    /\ cacheVars = <<NullArray, 0, Null>>
    /\ staticData = [posts |-> StaticPosts]
    /\ \A r \in Requests :
         reqs[r].pc = "done" =>
           /\ reqs[r].response.status = 200
           /\ reqs[r].response.posts = PageOf(staticData.posts, reqs[r])
           /\ reqs[r].response.pagination.total = Len(staticData.posts)

\* C13 witness: with the credential set, a read has been answered from the
\* snapshot after more than the validity window has passed.
C13_Witness ==
  \E r \in Requests :
    /\ variant = "page"
    /\ apiKey
    /\ SnapshotHasPosts
    /\ clock - StartTime > CACHE_DURATION_page
    /\ reqs[r].pc = "done"
    /\ reqs[r].response.posts = PageOf(StaticPosts, reqs[r])
    /\ Len(reqs[r].response.posts) = 2

\* --------------------------------------- claims on the single-item endpoint

\* The snapshot-first version finds the post of the request in the snapshot.
ServedFromSnapshot ==
  /\ itVersion = "static first"
  /\ staticData # Null
  /\ "posts" \in DOMAIN staticData
  /\ \E k \in 1..Len(staticData.posts) : staticData.posts[k].id = itId

\* The request gets as far as the note service.
UpstreamAsked == apiKey /\ ~ServedFromSnapshot

\* The call of the note service fails other than by a 404.
OtherFailure == itOutcome = HTTP_ERROR \/ itOutcome = THROWS

\* C14 as stated: the answer is 404 exactly when the note service answers
\* not-found, and 500 when the credential is missing or the call fails in
\* another way.
C14_NotFoundVs500 ==
  itResp # Null =>
    /\ itResp.status = 404 <=> (UpstreamAsked /\ itOutcome = NOT_FOUND)
    /\ (~apiKey \/ (UpstreamAsked /\ OtherFailure)) => itResp.status = 500

\* C14: for a request that the snapshot-first version does not answer from
\* the snapshot, the answer is 404 exactly when the note service answers
\* not-found, 500 exactly when the credential is missing or the call fails
\* in another way, and 200 otherwise; a post found in the snapshot is
\* answered 200 whatever the credential and the note service.
C14_NotFoundVs500Live ==
  itResp # Null =>
    IF ServedFromSnapshot
    THEN itResp.status = 200
    ELSE /\ itResp.status = 404 <=> (apiKey /\ itOutcome = NOT_FOUND)
         /\ itResp.status = 500 <=> (~apiKey \/ OtherFailure)
         /\ itResp.status = 200 <=> (apiKey /\ itOutcome = BaseNote(itId))
         /\ itResp.status # 200 => "error" \in DOMAIN itResp

\* C14 witness: the snapshot-first version, with a snapshot that does not
\* have the post, has answered 404 for a 404 of the note service.
C14_Witness ==
  /\ itVersion = "static first"
  /\ staticData = [posts |-> StaticPosts]
  /\ itId = "B"
  /\ itOutcome = NOT_FOUND
  /\ itResp # Null
  /\ itResp.status = 404

\* C14 witness: [id]/route.ts has answered 500 for a failure that is no 404.
C14_WitnessOther ==
  /\ itVersion = "id route"
  /\ apiKey
  /\ itOutcome = HTTP_ERROR
  /\ itResp # Null
  /\ itResp.status = 500

\* The snapshot-first version has answered 200 from the snapshot without the
\* credential.
C14_WitnessSnapshotNoKey ==
  /\ ServedFromSnapshot
  /\ ~apiKey
  /\ itResp # Null
  /\ itResp.status = 200

\* C15: every 200 response of the single-item endpoint has the content of
\* the post, from the snapshot the script writes as from the note service.
C15_ContentIn200 ==
  (itResp # Null /\ itResp.status = 200) =>
    /\ "content" \in DOMAIN itResp
    /\ itResp.content # Undefined

\* C15, the live path: a 200 response that was fetched has the content of
\* the note, or the placeholder when the note has none.
C15_ContentWhenFetched ==
  (itResp # Null /\ itResp.status = 200 /\ ~ServedFromSnapshot) =>
    itResp.content =
      (IF itOutcome.content = Undefined \/ itOutcome.content = <<>>
       THEN NO_CONTENT ELSE itOutcome.content)

\* A post of the snapshot that the script wrote has been served: the
\* response has no content.
C15_WitnessSnapshot ==
  /\ ServedFromSnapshot
  /\ "total" \in DOMAIN staticData
  /\ itId = "A"
  /\ itResp # Null
  /\ itResp.status = 200
  /\ itResp.content = Undefined

\* A note has been fetched and served with its content.
C15_WitnessFetched ==
  /\ ~ServedFromSnapshot
  /\ itId = "A"
  /\ itResp # Null
  /\ itResp.status = 200
  /\ itResp.content = <<"#", "a">>

\* -------------------------------------------- claims on the batch fetcher

\* The ids of the list that come after the batch that starts at position i.
IdsAfterBatch(i) == Len(noteIds) - (i + BatchSize)

\* C16: in a refresh cycle, when a batch has settled and ids remain, the
\* delay of one second starts and the next batch is fetched when it is over
\* and not before; when the batch was the last one (the list may end exactly
\* with it) the cycle ends in that step, without a delay; every batch but
\* the first starts from a delay, and a cycle of one batch or of no ids takes
\* none.
C16_DelayBetweenBatches ==
  [][\A r \in Requests :
       /\ (reqs[r].pc = "fetching" /\ reqs'[r].pc # "fetching") =>
             IF IdsAfterBatch(reqs[r].i) > 0
             THEN /\ reqs'[r].pc = "delay"
                  /\ reqs'[r].wake = clock + BATCH_DELAY
                  /\ reqs'[r].issued = reqs[r].issued
             ELSE reqs'[r].pc = "done"
       /\ reqs'[r].pc = "delay" => reqs[r].pc \in {"fetching", "delay"}
       /\ (reqs[r].pc = "delay" /\ reqs'[r].pc # "delay") =>
             /\ clock >= reqs[r].wake
             /\ reqs'[r].pc = "fetching"
             /\ Len(reqs'[r].issued) > Len(reqs[r].issued)
       /\ (reqs[r].issued # <<>> /\ Len(reqs'[r].issued) > Len(reqs[r].issued)) =>
             reqs[r].pc = "delay"]_vars

\* C16 witness: a cycle over a list of exactly two batches has ended one
\* second after it started: one delay, between the batches, and none after
\* the second.
C16_Witness ==
  /\ variant = "route"
  /\ Len(noteIds) = 2 * batchSize_route
  /\ Refreshed(1)
  /\ Len(reqs[1].issued) = Len(noteIds)
  /\ clock = reqs[1].now + BATCH_DELAY

\* C16 witness: a cycle of page.tsx over a list of exactly one batch has
\* ended with no time passed.
C16_WitnessOneBatch ==
  /\ variant = "page"
  /\ Len(noteIds) = batchSize_page
  /\ Refreshed(1)
  /\ clock = reqs[1].now

\* C16 witness: the script is in the delay after the first of two batches.
C16_WitnessScript ==
  /\ variant = "script"
  /\ Len(noteIds) = 2 * batchSize_script
  /\ reqs[1].pc = "delay"
  /\ reqs[1].wake = clock + BATCH_DELAY

\* The place of an id in the configured list.
Pos(id) == CHOOSE j \in 1..Len(noteIds) : noteIds[j] = id

\* The pipeline makes a post of the note of this id: the fetch succeeds and,
\* in page.tsx, the title is not blank.
Kept(id) ==
  FetchSucceeds(id) /\ (variant = "page" => NonBlank(upstream[id].title))

\* The outcome at place j of a sequence of settled results is the outcome of
\* the id at place j of the list.
OutcomeOf(result, j) ==
  /\ result.status = "fulfilled"
  /\ IF FetchSucceeds(noteIds[j])
     THEN result.value # Null /\ result.value.id = noteIds[j]
     ELSE result.value = Null

\* C17: the outcomes that a cycle has collected are in the order of the id
\* list, whatever the order in which the fetches of a batch settled: in
\* route.ts and the script the outcome at place j is that of the j-th id, in
\* page.tsx the posts collected before the sort are those of the kept ids
\* in list order.  So the collection of a completed cycle is fixed by the
\* list and the notes: the kept ids, most recent first, equal dates in list
\* order.
C17_OutcomesInInputOrder ==
  \A r \in Requests :
    /\ (variant \in {"route", "script"}) =>
          /\ \A j \in 1..Len(reqs[r].allResults) : OutcomeOf(reqs[r].allResults[j], j)
          /\ \A k \in 1..Len(reqs[r].promises) :
               reqs[r].promises[k] # Pending =>
                 OutcomeOf(reqs[r].promises[k], reqs[r].i + k)
    /\ (variant = "page" /\ InCycle(r)) =>
          /\ \A a \in 1..Len(reqs[r].allPosts) : Kept(reqs[r].allPosts[a].id)
          /\ \A a, b \in 1..Len(reqs[r].allPosts) :
               a < b => Pos(reqs[r].allPosts[a].id) < Pos(reqs[r].allPosts[b].id)
    /\ Refreshed(r) =>
          /\ \A j \in 1..Len(noteIds) : Kept(noteIds[j]) <=> HasPost(CachedPosts, noteIds[j])
          /\ \A a \in 1..Len(CachedPosts) :
               CachedPosts[a].updatedAt = upstream[CachedPosts[a].id].updatedAt
          /\ \A a, b \in 1..Len(CachedPosts) :
               a < b =>
                 \/ CachedPosts[a].updatedAt > CachedPosts[b].updatedAt
                 \/ /\ CachedPosts[a].updatedAt = CachedPosts[b].updatedAt
                    /\ Pos(CachedPosts[a].id) < Pos(CachedPosts[b].id)

\* C17 witness: in a batch the fetch of the third id settled while that of
\* the first is outstanding; the results so far are in their places.
C17_Witness ==
  \E r \in Requests :
    /\ variant = "route"
    /\ reqs[r].pc = "fetching"
    /\ Len(reqs[r].promises) = 3
    /\ reqs[r].promises[1] = Pending
    /\ reqs[r].promises[3] # Pending
    /\ reqs[r].promises[3].value # Null
    /\ reqs[r].promises[3].value.id = "C"

\* C17 witness: a cycle has completed with two posts of the same date: they
\* are in list order.
C17_WitnessTie ==
  \E r \in Requests :
    /\ variant = "route"
    /\ Refreshed(r)
    /\ Len(postsCache) = 2
    /\ postsCache[1].id = "A" /\ postsCache[2].id = "C"
    /\ postsCache[1].updatedAt = postsCache[2].updatedAt

\* C18: when every fetch settles in the end, a refresh cycle that has
\* started goes through every batch of the list and completes: the
\* invocation answers without an error after every id was fetched, whatever
\* fetches failed.
C18_CycleCompletes ==
  InCycle(1) ~> (Refreshed(1) /\ AnsweredOk(1) /\ reqs[1].issued = noteIds)

\* C18 witness: a cycle of two batches in which a fetch got an error
\* response and another threw has completed.
C18_Witness ==
  /\ Refreshed(1)
  /\ Len(noteIds) > BatchSize
  /\ \E idx \in 1..Len(noteIds) : upstream[noteIds[idx]] = HTTP_ERROR
  /\ \E idx \in 1..Len(noteIds) : upstream[noteIds[idx]] = THROWS
  /\ reqs[1].issued = noteIds

\* The fetches of the invocation at r that are outstanding.
OutstandingOf(r, ob) == {idx \in 1..Len(noteIds) : <<r, idx>> \in ob}

\* C19: a read that arrives while the cache holds no collection within its
\* window (credential set, no snapshot, ids configured) starts a refresh
\* cycle of its own, whether or not another invocation is in its cycle: it
\* fetches the first batch itself and the other invocations go on as they
\* are.  There is no coalescing.
C19_NoSingleFlight ==
  [][\A r \in Requests :
       (/\ Endpoint /\ apiKey /\ staticData = Null /\ ~Warm
        /\ Len(noteIds) > 0
        /\ reqs[r].pc = "idle" /\ reqs'[r].pc # "idle") =>
         /\ reqs'[r].pc = "fetching"
         /\ reqs'[r].found \in {"cold", "stale"}
         /\ reqs'[r].issued = SubSeq(noteIds, 1, Min(BatchSize, Len(noteIds)))
         /\ OutstandingOf(r, outbound') = 1..Min(BatchSize, Len(noteIds))
         /\ \A q \in Requests \ {r} :
              /\ reqs'[q] = reqs[q]
              /\ OutstandingOf(q, outbound') = OutstandingOf(q, outbound)]_vars

\* C19 witness: two refresh cycles are in flight at once, the first in its
\* second batch, the second in its first, each with fetches outstanding.
C19_Witness ==
  /\ variant = "route"
  /\ reqs[1].pc = "fetching" /\ reqs[2].pc = "fetching"
  /\ reqs[1].found = "cold" /\ reqs[2].found = "cold"
  /\ reqs[1].i = batchSize_route /\ reqs[2].i = 0
  /\ OutstandingOf(1, outbound) # {}
  /\ OutstandingOf(2, outbound) # {}

\* C19 witness: two cycles that started on an expired cache are in flight.
C19_WitnessExpired ==
  /\ Endpoint
  /\ InCycle(1) /\ InCycle(2)
  /\ reqs[1].found = "stale" /\ reqs[2].found = "stale"

\* C19 witness: the second of two concurrent cycles, which found no
\* collection when it arrived during the first, has fetched every id and
\* completed after the first did.
C19_WitnessBothComplete ==
  /\ Endpoint
  /\ Len(noteIds) > BatchSize
  /\ Refreshed(2)
  /\ reqs[2].found = "cold"
  /\ reqs[2].issued = noteIds
  /\ reqs[1].pc = "idle"

\* The fields of a post that the snapshot and a live collection have in
\* common and that a reader of either is shown.
Shown(post) ==
  [id |-> post.id, title |-> post.title, tags |-> post.tags,
   createdAt |-> post.createdAt, updatedAt |-> post.updatedAt,
   excerpt |-> post.excerpt]

ShownPosts(posts) == [k \in 1..Len(posts) |-> Shown(posts[k])]

\* The collection the snapshot script builds from the identifier list and
\* the upstream responses of this state.
SnapshotOf ==
  ScriptSuccessfulPosts(
    [j \in 1..Len(noteIds) |->
       [status |-> "fulfilled", value |-> ScriptFetch(noteIds[j])]])

\* C20: for the same identifier list and the same upstream responses, the
\* collection a live list endpoint builds and caches has the same posts in
\* the same order, with the same title, tags, timestamps and excerpt, as the
\* collection the snapshot script writes.
C20_SnapshotEqualsLive ==
  \A r \in Requests :
    (Endpoint /\ Refreshed(r) /\ CachedPosts # NullArray)
      => ShownPosts(CachedPosts) = ShownPosts(SnapshotOf)

\* C20, as built: the equivalence holds for the endpoint of route.ts, and the
\* script's own run writes the collection SnapshotOf describes.
C20_SnapshotEqualsRoute ==
  \A r \in Requests :
    (variant \in {"route", "script"} /\ Refreshed(r) /\ CachedPosts # NullArray)
      => ShownPosts(CachedPosts) = ShownPosts(SnapshotOf)

\* C20 witness: the endpoint of page.tsx has completed a cycle over a list
\* whose notes include one without a usable title, which the script keeps.
C20_Witness ==
  /\ variant = "page"
  /\ Refreshed(1)
  /\ memoryCache # Null
  /\ Len(SnapshotOf) > Len(memoryCache.posts)

\* C20 witness: the endpoint of route.ts has completed a cycle of more than
\* one batch with a failed fetch, and its cache equals the script's output.
C20_WitnessRoute ==
  /\ variant = "route"
  /\ Refreshed(1)
  /\ Len(noteIds) > batchSize_route
  /\ \E j \in 1..Len(noteIds) : ~FetchSucceeds(noteIds[j])
  /\ Len(postsCache) > 1
  /\ ShownPosts(postsCache) = ShownPosts(SnapshotOf)

\* C20 witness: the endpoint of page.tsx keeps the same posts as the script
\* but shows a different excerpt for one of them.
C20_WitnessExcerpt ==
  /\ variant = "page"
  /\ Refreshed(1)
  /\ memoryCache # Null
  /\ Len(memoryCache.posts) = Len(SnapshotOf)
  /\ \E k \in 1..Len(SnapshotOf) :
       /\ memoryCache.posts[k].id = SnapshotOf[k].id
       /\ memoryCache.posts[k].excerpt # SnapshotOf[k].excerpt

\* C21: within one refresh cycle the note requests that are outstanding never
\* number more than the batch size, and the requests the cycle has issued are
\* the identifiers of the list from its start, each position once (nothing is
\* requested a second time).
C21_BoundedFanOut ==
  \A r \in Requests :
    /\ Cardinality(OutstandingOf(r, outbound)) <= BatchSize
    /\ Len(reqs[r].issued) <= Len(noteIds)
    /\ reqs[r].issued = SubSeq(noteIds, 1, Len(reqs[r].issued))
    /\ \A j, k \in 1..Len(reqs[r].issued) :
         reqs[r].issued[j] = reqs[r].issued[k] => j = k

\* C21 witness: a cycle in its second batch, after a failed fetch in the
\* first, has requests outstanding and has issued every identifier once,
\* the one that failed included.
C21_Witness ==
  /\ variant = "route"
  /\ reqs[1].pc = "fetching"
  /\ reqs[1].i = batchSize_route
  /\ OutstandingOf(1, outbound) # {}
  /\ reqs[1].issued = noteIds
  /\ \E j \in 1..batchSize_route : ~FetchSucceeds(noteIds[j])

\* C21 witness: a full batch of three is outstanding and more identifiers
\* are waiting for the next batch.
C21_WitnessFull ==
  /\ variant = "route"
  /\ reqs[1].pc = "fetching"
  /\ Cardinality(OutstandingOf(1, outbound)) = batchSize_route
  /\ Len(noteIds) > Len(reqs[1].issued)

\* C21 witness: the endpoint of page.tsx has a full batch of five outstanding.
C21_WitnessPage ==
  /\ variant = "page"
  /\ reqs[1].pc = "fetching"
  /\ Cardinality(OutstandingOf(1, outbound)) = batchSize_page

\* A list read arrives at slot r in this step, at an endpoint that has its
\* credential, holds a cached collection and has no snapshot file to serve.
ReadArrives(r) ==
  /\ Endpoint
  /\ apiKey
  /\ staticData = Null
  /\ CachedPosts # NullArray
  /\ reqs[r].pc = "idle"
  /\ reqs'[r].pc # "idle"

\* The age of the cached collection at the current time.
CacheAge == clock - CachedAt

\* C25: the cache becomes a miss only once the age of the collection
\* strictly exceeds the validity window: a read at which the age is at most
\* the window, the window itself included, is served from the cache and
\* starts no refresh.
C25_MissOnlyBeyondWindow ==
  [][\A r \in Requests :
       (ReadArrives(r) /\ CacheAge <= CacheDuration) =>
         /\ reqs'[r].found = "warm"
         /\ reqs'[r].issued = <<>>
         /\ outbound' = outbound]_vars

\* C25, as built: a read is served from the cache exactly when the age is
\* strictly less than the window; at an age equal to the window, or more,
\* the read is a miss and starts a refresh over the identifier list.
C25_MissFromWindowOn ==
  [][\A r \in Requests :
       ReadArrives(r) =>
         IF CacheAge < CacheDuration
         THEN /\ reqs'[r].found = "warm"
              /\ reqs'[r].issued = <<>>
              /\ outbound' = outbound
         ELSE /\ reqs'[r].found = "stale"
              /\ reqs'[r].now = clock
              /\ (Len(noteIds) > 0 =>
                    /\ reqs'[r].pc = "fetching"
                    /\ OutstandingOf(r, outbound') # {})]_vars

\* C25 witness: a refresh cycle is running for a read that arrived when the
\* age of the collection was exactly the window.
C25_Witness ==
  \E r \in Requests :
    /\ Endpoint
    /\ InCycle(r)
    /\ reqs[r].found = "stale"
    /\ CachedPosts # NullArray
    /\ reqs[r].now - CachedAt = CacheDuration

\* C25 witness: a read was served from the cache at an age within a batch
\* delay of the window.
C25_WitnessServed ==
  \E r \in Requests :
    /\ Endpoint
    /\ reqs[r].pc = "done"
    /\ reqs[r].found = "warm"
    /\ reqs[r].now - CachedAt > 0
    /\ reqs[r].now - CachedAt < CacheDuration

\* The cache of an endpoint is written in this step.
CacheWritten == Endpoint /\ cacheVars' # cacheVars

\* C26: the timestamp stored with a refreshed collection is the time at which
\* the refresh completes, so the collection just written has age zero and is
\* within its validity window, however long the cycle took.
C26_TimestampIsCompletionTime ==
  [][CacheWritten =>
       /\ CachedAt' = clock'
       /\ clock' - CachedAt' < CacheDuration]_vars

\* C26, as built: the timestamp stored is the time at which the read that
\* started the cycle arrived, taken before the first fetch.
C26_TimestampIsArrivalTime ==
  [][CacheWritten =>
       \E r \in Requests :
         /\ reqs[r].pc # "done" /\ reqs'[r].pc = "done"
         /\ CachedAt' = reqs'[r].now]_vars

\* C26 witness: a cycle of more than one batch has just written the cache
\* with a timestamp that lies before the time of the write.
C26_Witness ==
  \E r \in Requests :
    /\ Endpoint
    /\ Refreshed(r)
    /\ Len(noteIds) > BatchSize
    /\ CachedAt = reqs[r].now
    /\ CachedAt < clock

\* C26 witness: a collection is written already a whole window old.
C26_WitnessBornExpired ==
  \E r \in Requests :
    /\ Endpoint
    /\ Refreshed(r)
    /\ CachedAt = reqs[r].now
    /\ clock - CachedAt >= CacheDuration

\* There are identifiers configured and the fetch of every one of them fails.
AllFail ==
  /\ Len(noteIds) > 0
  /\ \A j \in 1..Len(noteIds) : ~FetchSucceeds(noteIds[j])

\* The response at slot r is the empty page of an empty collection.
EmptyPage(st) ==
  /\ st.response.status = 200
  /\ st.response.posts = <<>>
  /\ st.response.pagination.total = 0
  /\ st.response.pagination.hasMore = FALSE

\* C27: a refresh cycle in which every fetch fails completes normally,
\* answers with an empty page and writes the cache with an empty collection
\* and the timestamp of the cycle; and every list read that arrives while
\* that empty collection is within its validity window is answered from the
\* cache with an empty page, total 0 and hasMore false, without any outbound
\* request and without a change to the cache.
C27_EmptyRefreshIsCached ==
  [][\A r \in Requests :
       (Endpoint /\ AllFail) =>
         /\ (InCycle(r) /\ reqs'[r].pc = "done") =>
              /\ reqs'[r].issued = noteIds
              /\ EmptyPage(reqs'[r])
              /\ CachedPosts' = <<>>
              /\ CachedAt' = reqs'[r].now
         /\ (ReadArrives(r) /\ CachedPosts = <<>> /\ CacheAge < CacheDuration) =>
              /\ reqs'[r].pc = "done"
              /\ reqs'[r].found = "warm"
              /\ EmptyPage(reqs'[r])
              /\ reqs'[r].issued = <<>>
              /\ outbound' = outbound
              /\ cacheVars' = cacheVars]_vars

\* C27 witness: after a cycle over two identifiers in which both fetches
\* failed, a later read has been answered from the empty cached collection.
C27_Witness ==
  \E r \in Requests :
    /\ variant = "route"
    /\ AllFail
    /\ Len(noteIds) > 1
    /\ postsCache = <<>>
    /\ reqs[r].pc = "done"
    /\ reqs[r].found = "warm"
    /\ reqs[r].now > cacheTimestamp
    /\ EmptyPage(reqs[r])

\* C27 witness: the same at the endpoint of page.tsx.
C27_WitnessPage ==
  \E r \in Requests :
    /\ variant = "page"
    /\ AllFail
    /\ memoryCache # Null
    /\ memoryCache.posts = <<>>
    /\ reqs[r].pc = "done"
    /\ reqs[r].found = "warm"
    /\ EmptyPage(reqs[r])

\* C28: under any interleaving of concurrent refresh cycles the timestamp of
\* the cache never decreases.
C28_TimestampMonotonic ==
  [][Endpoint => CachedAt' >= CachedAt]_vars

\* C28, as built: every write stores the arrival time of the read whose cycle
\* ends, whatever timestamp the cache holds.
C28_LastWriterWins ==
  [][CacheWritten =>
       \E r \in Requests :
         /\ InCycle(r) \/ reqs[r].pc = "idle"
         /\ reqs'[r].pc = "done"
         /\ CachedAt' = reqs'[r].now
         /\ CachedPosts' # NullArray]_vars

\* C28 witness: a cycle that started earlier is still running while the
\* cache already holds the collection and the later timestamp of a cycle
\* that started after it.
C28_Witness ==
  \E r \in Requests :
    /\ Endpoint
    /\ InCycle(r)
    /\ CachedPosts # NullArray
    /\ reqs[r].now < CachedAt

\* The retry control of InfiniteScrollPosts is rendered and acts.
ScrollRetryOffered ==
  /\ spError # Null
  /\ ~spLoading
  /\ spPagination.hasMore

\* The load that settled last in InfiniteScrollPosts is a successful retry.
ScrollRetried == spLast # Null /\ spLast.retry /\ spLast.ok

\* The load that settled last in InfinitePostList is a successful retry.
ListRetried == plLast # Null /\ plLast.origin = "retry" /\ plLast.ok

\* C22: in each infinite-scroll component a failed load leaves an error
\* shown together with a retry control, and once a retried load has
\* succeeded the error is cleared and the component shows its posts, not the
\* error view.
C22_RetryClearsError ==
  /\ component = "InfiniteScrollPosts" =>
       /\ (spLast # Null /\ ~spLast.ok /\ spFetch = Null) => ScrollRetryOffered
       /\ ScrollRetried => spError = Null
  /\ component = "InfinitePostList" =>
       /\ (plLast # Null /\ ~plLast.ok) => plError # Null
       /\ ListRetried => (plError = Null /\ ~ErrorView)

\* C22, as built: InfiniteScrollPosts clears the error when a load starts,
\* so a successful retry leaves no error; InfinitePostList shows the error
\* after a failed load and never clears it.
C22_ScrollRetryClearsError ==
  /\ component = "InfiniteScrollPosts" =>
       /\ (spLast # Null /\ ~spLast.ok /\ spFetch = Null) => ScrollRetryOffered
       /\ ScrollRetried => spError = Null
       /\ spFetch # Null => spError = Null
  /\ component = "InfinitePostList" =>
       /\ (plLast # Null /\ ~plLast.ok) => plError # Null
       /\ (plLast # Null /\ plError = Null) => plLast.ok

\* C22 witness: in InfinitePostList the retried load has succeeded, its
\* posts are in the list, nothing is in flight, and the error view is still
\* what is rendered.
C22_Witness ==
  /\ component = "InfinitePostList"
  /\ ListRetried
  /\ plFetches = {}
  /\ Len(plPosts) > 0
  /\ plPosts = plLast.received
  /\ ErrorView

\* C22 witness: in InfiniteScrollPosts a retried load has succeeded and
\* appended posts, and no error is shown.
C22_WitnessScroll ==
  /\ component = "InfiniteScrollPosts"
  /\ ScrollRetried
  /\ Len(spLast.appended) > 0
  /\ spError = Null

\* InfiniteScrollPosts shows its message that all posts are loaded, over a
\* collection that has not changed since the mount.
AllLoadedShown ==
  /\ component = "InfiniteScrollPosts"
  /\ srvPublished = 0
  /\ ~spPagination.hasMore
  /\ Len(spPosts) > 0

\* C23: when InfiniteScrollPosts, started from page 1 of a fixed collection
\* and loading page after page without errors, has hasMore = false and shows
\* its all-loaded message, the list it displays is the whole collection: as
\* long as pagination.total, the posts of the last page included.
C23_AllLoadedIsWholeCollection ==
  AllLoadedShown =>
    /\ spPosts = srvPosts
    /\ Len(spPosts) = spPagination.total

\* C23, as built: the list displayed is the pages before the one whose
\* response said hasMore = false; the posts of that page are not appended.
C23_LastPageDropped ==
  AllLoadedShown =>
    /\ spPosts = SubSeq(srvPosts, 1, Len(spPosts))
    /\ Len(spPosts) = Min(SCROLL_LIMIT * spPagination.page, Len(srvPosts))
    /\ (Len(srvPosts) > SCROLL_LIMIT => Len(spPosts) < Len(srvPosts))

\* C23 witness: after two loads over a collection of three pages the
\* all-loaded message is shown with total 11 and ten posts are displayed.
C23_Witness ==
  /\ AllLoadedShown
  /\ spFetch = Null
  /\ Len(srvPosts) = 2 * SCROLL_LIMIT + 1
  /\ spPagination.total = Len(srvPosts)
  /\ spPagination.page = 2
  /\ Len(spPosts) = 2 * SCROLL_LIMIT

\* C23 witness: a collection of one page is displayed whole from the mount.
C23_WitnessOnePage ==
  /\ AllLoadedShown
  /\ Len(srvPosts) = SCROLL_LIMIT
  /\ spPosts = srvPosts

\* No two posts of the sequence have the same id.
DistinctIds(posts) ==
  \A j, k \in 1..Len(posts) : posts[j].id = posts[k].id => j = k

ServerPrefix(n) == SubSeq(srvPosts, 1, Min(n, Len(srvPosts)))

\* C29: in every reachable state of InfinitePostList against a fixed
\* collection the list displayed is empty before the first response and
\* otherwise is pages 1..page of the collection in order: no page appended
\* twice, none skipped, none discarded by a late response for page 1.
C29_DisplayedIsPagePrefix ==
  component = "InfinitePostList" =>
    \/ plPosts = <<>> /\ (plLast = Null \/ Len(srvPosts) = 0 \/ ~plLast.ok)
    \/ plPosts = ServerPrefix(plPage * LIST_LIMIT)

\* C29, as built: when the response of the one call in flight arrives and
\* that call was made on a list of whole pages 1..page, the list is again
\* pages 1..page.
C29_OneCallAtATime ==
  [][(/\ component = "InfinitePostList"
      /\ Cardinality(plFetches) = 1
      /\ plPosts = ServerPrefix(plPage * LIST_LIMIT)
      /\ \A f \in plFetches : f.append => f.pageNum = plPage + 1
      /\ plFetches' = {}
      /\ plLast'.ok)
     => plPosts' = ServerPrefix(plPage' * LIST_LIMIT)]_vars

\* C29 witness: the response for page 2 arrived before the response of the
\* first load, and the list displayed is page 2 alone.
C29_Witness ==
  /\ component = "InfinitePostList"
  /\ Len(srvPosts) > LIST_LIMIT
  /\ plPage = 2
  /\ Len(plPosts) > 0
  /\ plPosts[1] = srvPosts[LIST_LIMIT + 1]

\* C29 witness: page 2 was appended twice, without any failed load.
C29_WitnessTwice ==
  /\ component = "InfinitePostList"
  /\ plError = Null
  /\ Len(plPosts) > Len(srvPosts)

\* C29 witness: the late response of the first load has replaced pages 1
\* and 2 by page 1.
C29_WitnessDiscarded ==
  /\ component = "InfinitePostList"
  /\ plError = Null
  /\ plLast # Null
  /\ plLast.origin = "mount"
  /\ plLast.ok
  /\ plIssued >= 3
  /\ plPage = 1
  /\ Len(srvPosts) > LIST_LIMIT
  /\ Len(plPosts) = LIST_LIMIT

\* A successful load of InfiniteScrollPosts ends in this step.
LoadEnds == spFetch # Null /\ spFetch' = Null

\* C30: when load-more keeps being triggered and every request succeeds,
\* InfiniteScrollPosts comes to hasMore = false with no request in flight
\* and stays there; each successful load appends at least one post that was
\* not displayed or sets hasMore to false; and while a load is in progress or
\* hasMore is false no request is issued.
C30_LoadingTerminates ==
  /\ <>[](~spPagination.hasMore /\ spFetch = Null /\ ~spLoading)
  /\ [][LoadEnds =>
          \/ ~spPagination'.hasMore
          \/ /\ Len(spPosts') > Len(spPosts)
             /\ spPosts = SubSeq(spPosts', 1, Len(spPosts))
             /\ DistinctIds(spPosts')]_vars
  /\ [][(spLoading \/ ~spPagination.hasMore) =>
          (spFetch' = spFetch \/ spFetch' = Null)]_vars

\* C30 witness: after loads that appended posts while the collection
\* changed, hasMore is false and nothing is in flight.
C30_Witness ==
  /\ component = "InfiniteScrollPosts"
  /\ ~spPagination.hasMore
  /\ spFetch = Null
  /\ ~spLoading
  /\ spLast # Null
  /\ spPagination.page >= 2
  /\ srvPublished > 0

====
